---- MODULE Spec2Model ----
(***************************************************************************)
(* A model of the ai-toolkit dispatch engine (package toolkit): the        *)
(* Toolkit registry built by New, and HandleToolKit, which decodes a raw   *)
(* payload, looks every requested parent up in the registry and hands the  *)
(* requested childs of a registered parent to that parent's               *)
(* HandleChildren.  Strings built with fmt.Sprintf are sequences of their  *)
(* pieces; Go maps are functions whose DOMAIN is the key set.              *)
(*                                                                         *)
(* Spec follows whole calls on one toolkit; SpecRegistry follows New and   *)
(* the calls that describe the registry (name, schema, description);       *)
(* SpecSteps follows one HandleToolKit call through the iterations of its  *)
(* loops and the handlers it waits for; SpecDispatch follows HandleToolKit *)
(* calls only; SpecConcurrent follows several HandleToolKit calls that run *)
(* at the same time on one toolkit; SpecLoop follows the conversation loop *)
(* of the example client, GenerateContent, which hands the tool-use blocks *)
(* of the model's replies to HandleToolKit.                                *)
(***************************************************************************)
EXTENDS Integers, Sequences, FiniteSets, TLC

VARIABLES
    tk,      \* the Toolkit under test: [name, parents]
    registered, \* the parents New was called with to build it
    phase,   \* "idle": no call in progress; "returned": a call has returned
    op,      \* the method that returned last
    input,   \* the arguments it was called with
    resp,    \* its first return value
    err,     \* its error return value
    calls,   \* the HandleChildren and handler invocations it made, in order
    frame,   \* the locals of a HandleToolKit call that is followed step by step
    goroutines, \* the HandleToolKit calls that run at the same time, and
             \* the tlResponse values they build
    conv     \* the locals of the example client's GenerateContent

vars == <<tk, registered, phase, op, input, resp, err, calls, frame, goroutines, conv>>

----------------------------------------------------------------------------
(* Bounds of the model *)

\* most parents listed in one request
MaxParents == 2
\* most childs listed in one request, over all its parents
MaxChilds == 2
\* most parents handed to one call of New
MaxRegistered == 3
\* HandleToolKit calls that run at the same time
MaxCallers == 2

----------------------------------------------------------------------------
(* Go values *)

\* the nil error
Nil == [type |-> "nil"]

\* a nil Parent handed to New
NilParent == [isNil |-> TRUE]

\* the nil []ParentResponse of a ToolKitResponse that nothing was appended to
NoResponses == <<>>

\* types.go: NewError
NewError(code, message) ==
    [type |-> "ToolKitError", Code |-> code, Message |-> message]

\* errors.New / fmt.Errorf without %w: a plain error value
ErrorString(message) == [type |-> "errorString", Message |-> message]

IsToolKitError(v) == v.type = "ToolKitError"

\* strings.Contains on a string kept as the sequence of its pieces: every piece
\* of the needle occurs, in order and adjacent, in the haystack
Contains(haystack, needle) ==
    \E k \in 0..(Len(haystack) - Len(needle)) :
        \A n \in 1..Len(needle) : haystack[k + n] = needle[n]

----------------------------------------------------------------------------
(* Argument payloads and the argument shape of the test tools *)

\* builder_test.go: the payloads the tests hand to a child
ArgsGood == "{\"input\":\"in1\"}"
\* an object that leaves out the field "input", which SimpleArgs tags required
ArgsEmpty == "{}"
\* a number where SimpleArgs wants a string
ArgsMismatch == "{\"input\":123}"
\* bytes that are no JSON value
ArgsMalformed == "{\"bad"

ArgPayloads == {ArgsGood, ArgsEmpty, ArgsMismatch, ArgsMalformed}

\* the payloads that leave out a field SimpleArgs annotates jsonschema:"required"
OmitsRequired(args) == args = ArgsEmpty

\* UnmarshalArgs rejecting an object that leaves out the required field
UnmarshalArgs_EnforcesRequired(args) ==
    CASE args = ArgsGood ->
            [err |-> Nil, value |-> [Input |-> "in1"]]
      [] args = ArgsEmpty ->
            [err |-> ErrorString(<<"missing required field input">>),
             value |-> [Input |-> ""]]
      [] args = ArgsMismatch ->
            [err |-> ErrorString(<<"json: cannot unmarshal number into Go struct field SimpleArgs.input of type string">>),
             value |-> [Input |-> ""]]
      [] OTHER ->
            [err |-> ErrorString(<<"unexpected end of JSON input">>),
             value |-> [Input |-> ""]]

\* json.Unmarshal(args, &typedArgs) with typedArgs a SimpleArgs: encoding/json
\* reports a syntax error or a type mismatch, and leaves a field the object
\* does not mention at its zero value without reporting anything (the
\* jsonschema tag is read by the schema generator only)
UnmarshalArgs(args) ==
    CASE args = ArgsGood ->
            [err |-> Nil, value |-> [Input |-> "in1"]]
      [] args = ArgsEmpty ->
            [err |-> Nil, value |-> [Input |-> ""]]
      [] args = ArgsMismatch ->
            [err |-> ErrorString(<<"json: cannot unmarshal number into Go struct field SimpleArgs.input of type string">>),
             value |-> [Input |-> ""]]
      [] OTHER ->
            [err |-> ErrorString(<<"unexpected end of JSON input">>),
             value |-> [Input |-> ""]]

----------------------------------------------------------------------------
(* The builder: NewChild, NewParent and the Child and Parent they return *)

\* builder_test.go createTestChild: the handler closes over name, output and
\* shouldError
handler(c, args) ==
    IF c.shouldError
    THEN [result |-> Nil, err |-> ErrorString(<<"error_from_", c.name>>)]
    ELSE [result |-> [type |-> "SimpleResponse", Output |-> <<c.output, ":", args.Input>>],
          err |-> Nil]

\* the fields of the struct types a schema is generated for, in declaration
\* order: the JSON name, the JSON type and whether the jsonschema tag says
\* required
StructFields(T) ==
    CASE T = "ToolKit" ->
            <<[name |-> "name", type |-> "string", required |-> TRUE],
              [name |-> "parents", type |-> "array", required |-> TRUE]>>
      [] T = "SimpleArgs" ->
            <<[name |-> "input", type |-> "string", required |-> TRUE]>>
      [] OTHER -> <<>>

RECURSIVE RequiredFields(_, _, _)
\* the names of the fields from fields[k] on that are tagged required, in
\* order, after those in acc
RequiredFields(fields, k, acc) ==
    IF k > Len(fields) THEN acc
    ELSE RequiredFields(fields, k + 1,
             IF fields[k].required THEN Append(acc, fields[k].name) ELSE acc)

\* types.go GenerateSchema[T]: an object schema that lists every field of T as
\* a property and the fields tagged required as required
GenerateSchema(T) ==
    [type |-> "object",
     properties |-> [k \in 1..Len(StructFields(T)) |->
                        [name |-> StructFields(T)[k].name, type |-> StructFields(T)[k].type]],
     required |-> RequiredFields(StructFields(T), 1, <<>>)]

\* NewChild binds name, description and handler, and generates the schema of
\* the argument shape once
NewChild(name, output, shouldError) ==
    [name |-> name, description |-> <<"desc_", name>>,
     output |-> output, shouldError |-> shouldError,
     inputSchema |-> GenerateSchema("SimpleArgs")]

\* Handle going on to the handler, with zero arguments, after a failed decode
Handle_IgnoresDecodeError(c, args) ==
    LET dec == UnmarshalArgs(args)
        out == handler(c, dec.value) IN
    IF out.err # Nil
    THEN [result |-> Nil,
          err |-> NewError("handler_execution_error",
                           <<"Error executing ", c.name, ": ">> \o out.err.Message),
          handled |-> <<dec.value>>]
    ELSE [result |-> out.result, err |-> Nil, handled |-> <<dec.value>>]

\* Handle returning the handler's error as it is
Handle_LeaksRawError(c, args) ==
    LET dec == UnmarshalArgs(args) IN
    IF dec.err # Nil
    THEN [result |-> Nil,
          err |-> NewError("invalid_arguments",
                           <<"Failed to unmarshal arguments for ", c.name, ": ">> \o dec.err.Message),
          handled |-> <<>>]
    ELSE LET out == handler(c, dec.value) IN
         [result |-> out.result, err |-> out.err, handled |-> <<dec.value>>]

\* Child.Handle: decode the arguments, call the handler, wrap its failure.
\* handled is the sequence of typed arguments the handler was called with.
Handle(c, args) ==
    LET dec == UnmarshalArgs(args) IN
    IF dec.err # Nil
    THEN [result |-> Nil,
          err |-> NewError("invalid_arguments",
                           <<"Failed to unmarshal arguments for ", c.name, ": ">> \o dec.err.Message),
          handled |-> <<>>]
    ELSE LET out == handler(c, dec.value) IN
         IF out.err # Nil
         THEN [result |-> Nil,
               err |-> NewError("handler_execution_error",
                                <<"Error executing ", c.name, ": ">> \o out.err.Message),
               handled |-> <<dec.value>>]
         ELSE [result |-> out.result, err |-> Nil, handled |-> <<dec.value>>]

\* m[key] = value on a Go map
MapSet(m, key, value) ==
    [k \in DOMAIN m \cup {key} |-> IF k = key THEN value ELSE m[k]]

EmptyMap == [k \in {} |-> Nil]

RECURSIVE ChildMap(_, _, _)
\* NewParent's loop over its children: a later child replaces an earlier one of
\* the same name
ChildMap(children, k, m) ==
    IF k > Len(children) THEN m
    ELSE ChildMap(children, k + 1, MapSet(m, children[k].name, children[k]))

NewParent(name, children) ==
    [isNil |-> FALSE, name |-> name, description |-> <<"desc_", name>>,
     children |-> ChildMap(children, 1, EmptyMap)]

\* ParentResponse.AddResponse
AddChildResponse(pr, cr) ==
    [pr EXCEPT !.ChildsResponses = Append(@, cr)]

RECURSIVE HandleChildrenLoop_StopsAtFailure(_, _, _, _, _)
\* HandleChildrenLoop returning at the first child that is not found or fails
HandleChildrenLoop_StopsAtFailure(p, childRequests, j, pr, hs) ==
    IF j > Len(childRequests) THEN [resp |-> pr, handled |-> hs]
    ELSE LET req == childRequests[j] IN
         IF req.Name \notin DOMAIN p.children
         THEN [resp |-> AddChildResponse(pr, [Name |-> req.Name,
                            Response |-> NewError("child_not_found",
                                <<"Child tool '", req.Name, "' not found in parent '", p.name, "'">>)]),
               handled |-> hs]
         ELSE LET r == Handle(p.children[req.Name], req.Args)
                  hs2 == hs \o [n \in 1..Len(r.handled) |->
                                   [j |-> j, child |-> req.Name, args |-> r.handled[n]]] IN
              IF r.err # Nil
              THEN [resp |-> AddChildResponse(pr, [Name |-> req.Name, Response |-> r.err]),
                    handled |-> hs2]
              ELSE HandleChildrenLoop_StopsAtFailure(p, childRequests, j + 1,
                       AddChildResponse(pr, [Name |-> req.Name, Response |-> r.result]), hs2)

RECURSIVE HandleChildrenLoop(_, _, _, _, _)
\* the loop of HandleChildren over childRequests[j..]: pr is the response built
\* so far, hs the handler calls made so far
HandleChildrenLoop(p, childRequests, j, pr, hs) ==
    IF j > Len(childRequests) THEN [resp |-> pr, handled |-> hs]
    ELSE LET req == childRequests[j] IN
         IF req.Name \notin DOMAIN p.children
         THEN HandleChildrenLoop(p, childRequests, j + 1,
                  AddChildResponse(pr, [Name |-> req.Name,
                      Response |-> NewError("child_not_found",
                          <<"Child tool '", req.Name, "' not found in parent '", p.name, "'">>)]),
                  hs)
         ELSE LET r == Handle(p.children[req.Name], req.Args) IN
              HandleChildrenLoop(p, childRequests, j + 1,
                  AddChildResponse(pr, [Name |-> req.Name,
                      Response |-> IF r.err # Nil THEN r.err ELSE r.result]),
                  hs \o [n \in 1..Len(r.handled) |->
                            [j |-> j, child |-> req.Name, args |-> r.handled[n]]])

\* Parent.HandleChildren
HandleChildren(p, childRequests) ==
    HandleChildrenLoop(p, childRequests, 1,
                       [Name |-> p.name, ChildsResponses |-> <<>>], <<>>)

----------------------------------------------------------------------------
(* Toolkit *)

RECURSIVE NewLoop_FirstWins(_, _, _)
\* NewLoop keeping the parent registered first under a name
NewLoop_FirstWins(parents, k, parentMap) ==
    IF k > Len(parents) THEN parentMap
    ELSE IF parents[k].isNil \/ parents[k].name \in DOMAIN parentMap
         THEN NewLoop_FirstWins(parents, k + 1, parentMap)
         ELSE NewLoop_FirstWins(parents, k + 1,
                  MapSet(parentMap, parents[k].name, parents[k]))

RECURSIVE NewLoop(_, _, _)
\* the loop of New over its parents: a nil parent is skipped, a parent whose
\* name is already a key replaces the one registered before
NewLoop(parents, k, parentMap) ==
    IF k > Len(parents) THEN parentMap
    ELSE IF parents[k].isNil
         THEN NewLoop(parents, k + 1, parentMap)
         ELSE NewLoop(parents, k + 1, MapSet(parentMap, parents[k].name, parents[k]))

New(name, parents) ==
    [parents |-> NewLoop(parents, 1, EmptyMap), name |-> name]

GetToolkitName(t) == t.name

\* types.go GetToolKitSchemaForAnthropic
GetToolKitSchemaForAnthropic == GenerateSchema("ToolKit")

\* GetToolkitSchema returning nil for a provider it does not know
GetToolkitSchema_NilForUnknown(t, provider) ==
    CASE provider = "anthropic" -> GetToolKitSchemaForAnthropic
      [] OTHER -> Nil

\* GetToolkitSchema: the switch on provider, whose default case logs a warning
GetToolkitSchema(t, provider) ==
    CASE provider = "anthropic" -> GetToolKitSchemaForAnthropic
      [] OTHER -> GetToolKitSchemaForAnthropic

RECURSIVE MarshalProperties(_, _)
\* the members of the JSON object "properties", from the k-th property on
MarshalProperties(properties, k) ==
    IF k > Len(properties) THEN <<>>
    ELSE (IF k > 1 THEN <<",">> ELSE <<>>)
         \o <<"\"", properties[k].name, "\":{\"type\":\"", properties[k].type, "\"}">>
         \o MarshalProperties(properties, k + 1)

RECURSIVE MarshalNames(_, _)
\* the elements of the JSON array "required", from the k-th name on
MarshalNames(names, k) ==
    IF k > Len(names) THEN <<>>
    ELSE (IF k > 1 THEN <<",">> ELSE <<>>)
         \o <<"\"", names[k], "\"">>
         \o MarshalNames(names, k + 1)

\* json.Marshal(schema): the compact JSON text of a schema document, and an
\* error for a value that has no JSON form
Marshal(schema) ==
    IF schema.type = "object"
    THEN [err |-> Nil,
          bytes |-> <<"{\"properties\":{">> \o MarshalProperties(schema.properties, 1)
                    \o <<"},\"type\":\"object\",\"required\":[">>
                    \o MarshalNames(schema.required, 1) \o <<"]}">>]
    ELSE [err |-> ErrorString(<<"json: unsupported type">>), bytes |-> <<>>]

\* the <child> line GetToolkitDescription writes for one child
ChildElement(child) ==
    LET marshaled == Marshal(child.inputSchema)
        schemaStr == IF marshaled.err = Nil THEN marshaled.bytes ELSE <<"schema_error">>
    IN <<"<child name=\"", child.name, "\" description=\"">> \o child.description
       \o <<"\"><input_schema>">> \o schemaStr \o <<"</input_schema></child>\n">>

RECURSIVE ChildElements(_, _, _)
\* the inner loop of GetToolkitDescription: the range over children visits them
\* in the order order, from its k-th element on
ChildElements(children, order, k) ==
    IF k > Len(order) THEN <<>>
    ELSE ChildElement(children[order[k]]) \o ChildElements(children, order, k + 1)

\* ParentBlock writing nothing for a parent that has no children
ParentBlock_SkipsEmpty(parent, order) ==
    IF Cardinality(DOMAIN parent.children) > 0
    THEN <<"<parent name=\"", parent.name, "\" description=\"">> \o parent.description
         \o <<"\"></parent>\n">>
         \o ChildElements(parent.children, order, 1) \o <<"</parent>\n">>
         \o <<"**NOTE**: A child tool cannot be invoked directly, the parent tool must be invoked first via its parent.\n">>
    ELSE <<>>

\* the body of the outer loop of GetToolkitDescription for one parent, whose
\* children the inner range visits in the order order
ParentBlock(parent, order) ==
    <<"<parent name=\"", parent.name, "\" description=\"">> \o parent.description
    \o <<"\"></parent>\n">>
    \o (IF Cardinality(DOMAIN parent.children) > 0
        THEN ChildElements(parent.children, order, 1) \o <<"</parent>\n">>
        ELSE <<"</parent>\n">>)
    \o <<"**NOTE**: A child tool cannot be invoked directly, the parent tool must be invoked first via its parent.\n">>

RECURSIVE ParentBlocks(_, _, _, _)
\* the outer loop of GetToolkitDescription: the range over t.parents visits
\* them in the order parentOrder, from its k-th element on
ParentBlocks(t, parentOrder, childOrder, k) ==
    IF k > Len(parentOrder) THEN <<>>
    ELSE ParentBlock(t.parents[parentOrder[k]], childOrder[parentOrder[k]])
         \o ParentBlocks(t, parentOrder, childOrder, k + 1)

\* GetToolkitDescription, for the orders in which its two range loops visit
\* the maps: parentOrder for t.parents, childOrder[name] for the children of
\* the parent name.  The text is the sequence of the pieces written.
GetToolkitDescription(t, parentOrder, childOrder) ==
    <<"In this environment, you have access to the following <toolkit name=\"", t.name, "\">:\n",
      "A <toolkit> is a collection of <parents>, a <parent> is a collection of <childs>.\n",
      "Below is the list of available <parents> and their <childs>:\n">>
    \o ParentBlocks(t, parentOrder, childOrder, 1)
    \o <<"</toolkit>">>

\* json.Unmarshal(input, &toolkitRequest) with toolkitRequest a ToolKit: a
\* payload that is no JSON, or whose values have the wrong JSON type, is an
\* error; an object without "parents" leaves ToolKitParents nil
parseToolKitInput(raw) ==
    CASE raw.json = "malformed" ->
            [value |-> [Name |-> "", ToolKitParents |-> <<>>],
             err |-> [type |-> "wrapError",
                      Message |-> <<"error unmarshaling toolkit JSON input: ",
                                    "unexpected end of JSON input">>]]
      [] raw.json = "mismatch" ->
            [value |-> [Name |-> "", ToolKitParents |-> <<>>],
             err |-> [type |-> "wrapError",
                      Message |-> <<"error unmarshaling toolkit JSON input: ",
                                    "json: cannot unmarshal string into Go struct field ToolKit.parents of type []toolkit.ToolKitParent">>]]
      [] OTHER ->
            [value |-> [Name |-> raw.name,
                        ToolKitParents |-> IF raw.hasParents THEN raw.parents ELSE <<>>],
             err |-> Nil]

\* AddResponse putting the new entry in front of the earlier ones
AddResponse_Prepends(tr, pr) ==
    [tr EXCEPT !.Responses = <<pr>> \o @]

\* ToolKitResponse.AddResponse
AddResponse(tr, pr) ==
    [tr EXCEPT !.Responses = Append(@, pr)]

RECURSIVE processLoop_DropsUnregistered(_, _, _, _, _)
\* processLoop with the unregistered parent skipped without an entry
processLoop_DropsUnregistered(t, parentReqs, i, tlResponse, cs) ==
    IF i > Len(parentReqs) THEN [resp |-> tlResponse, err |-> Nil, calls |-> cs]
    ELSE LET parentReq == parentReqs[i] IN
         IF parentReq.Name \notin DOMAIN t.parents
         THEN processLoop_DropsUnregistered(t, parentReqs, i + 1, tlResponse, cs)
         ELSE LET r == HandleChildren(t.parents[parentReq.Name], parentReq.ToolKitChilds) IN
              processLoop_DropsUnregistered(t, parentReqs, i + 1,
                  AddResponse(tlResponse, r.resp),
                  cs \o <<[op |-> "HandleChildren", i |-> i, parent |-> parentReq.Name]>>
                     \o [n \in 1..Len(r.handled) |->
                            [op |-> "handler", i |-> i, j |-> r.handled[n].j,
                             parent |-> parentReq.Name, child |-> r.handled[n].child,
                             args |-> r.handled[n].args]])

RECURSIVE processLoop_EmptyErrorEntry(_, _, _, _, _)
\* processLoop with the entry of an unregistered parent left without its
\* parent_not_found slot
processLoop_EmptyErrorEntry(t, parentReqs, i, tlResponse, cs) ==
    IF i > Len(parentReqs) THEN [resp |-> tlResponse, err |-> Nil, calls |-> cs]
    ELSE LET parentReq == parentReqs[i] IN
         IF parentReq.Name \notin DOMAIN t.parents
         THEN processLoop_EmptyErrorEntry(t, parentReqs, i + 1,
                  AddResponse(tlResponse,
                      [Name |-> parentReq.Name, ChildsResponses |-> <<>>]),
                  cs)
         ELSE LET r == HandleChildren(t.parents[parentReq.Name], parentReq.ToolKitChilds) IN
              processLoop_EmptyErrorEntry(t, parentReqs, i + 1,
                  AddResponse(tlResponse, r.resp),
                  cs \o <<[op |-> "HandleChildren", i |-> i, parent |-> parentReq.Name]>>
                     \o [n \in 1..Len(r.handled) |->
                            [op |-> "handler", i |-> i, j |-> r.handled[n].j,
                             parent |-> parentReq.Name, child |-> r.handled[n].child,
                             args |-> r.handled[n].args]])

RECURSIVE processLoop_StopsAtUnregistered(_, _, _, _, _)
\* processLoop returning at the first unregistered parent instead of going on
\* to the next one
processLoop_StopsAtUnregistered(t, parentReqs, i, tlResponse, cs) ==
    IF i > Len(parentReqs) THEN [resp |-> tlResponse, err |-> Nil, calls |-> cs]
    ELSE LET parentReq == parentReqs[i] IN
         IF parentReq.Name \notin DOMAIN t.parents
         THEN [resp |-> AddResponse(tlResponse,
                           [Name |-> parentReq.Name,
                            ChildsResponses |->
                                <<[Name |-> "_parent_error",
                                   Response |-> NewError("parent_not_found",
                                       <<"Parent toolkit '", parentReq.Name, "' not registered">>)]>>]),
               err |-> Nil, calls |-> cs]
         ELSE LET r == HandleChildren(t.parents[parentReq.Name], parentReq.ToolKitChilds) IN
              processLoop_StopsAtUnregistered(t, parentReqs, i + 1,
                  AddResponse(tlResponse, r.resp),
                  cs \o <<[op |-> "HandleChildren", i |-> i, parent |-> parentReq.Name]>>
                     \o [n \in 1..Len(r.handled) |->
                            [op |-> "handler", i |-> i, j |-> r.handled[n].j,
                             parent |-> parentReq.Name, child |-> r.handled[n].child,
                             args |-> r.handled[n].args]])

\* the first ToolKitError among the child entries of a response, Nil if none
FirstChildError(tlResponse) ==
    LET all == UNION {{<<i, j>> : j \in 1..Len(tlResponse.Responses[i].ChildsResponses)} :
                         i \in 1..Len(tlResponse.Responses)}
        slots == {ij \in all :
                     IsToolKitError(tlResponse.Responses[ij[1]].ChildsResponses[ij[2]].Response)}
    IN IF slots = {} THEN Nil
       ELSE LET first == CHOOSE ij \in slots :
                    \A o \in slots : ij[1] < o[1] \/ (ij[1] = o[1] /\ ij[2] <= o[2])
            IN tlResponse.Responses[first[1]].ChildsResponses[first[2]].Response

RECURSIVE processLoop_ReturnsChildError(_, _, _, _, _)
\* processLoop handing the first failure of the tree back as the call's error
processLoop_ReturnsChildError(t, parentReqs, i, tlResponse, cs) ==
    IF i > Len(parentReqs)
    THEN [resp |-> tlResponse, err |-> FirstChildError(tlResponse), calls |-> cs]
    ELSE LET parentReq == parentReqs[i] IN
         IF parentReq.Name \notin DOMAIN t.parents
         THEN processLoop_ReturnsChildError(t, parentReqs, i + 1,
                  AddResponse(tlResponse,
                      [Name |-> parentReq.Name,
                       ChildsResponses |->
                           <<[Name |-> "_parent_error",
                              Response |-> NewError("parent_not_found",
                                  <<"Parent toolkit '", parentReq.Name, "' not registered">>)]>>]),
                  cs)
         ELSE LET r == HandleChildren(t.parents[parentReq.Name], parentReq.ToolKitChilds) IN
              processLoop_ReturnsChildError(t, parentReqs, i + 1,
                  AddResponse(tlResponse, r.resp),
                  cs \o <<[op |-> "HandleChildren", i |-> i, parent |-> parentReq.Name]>>
                     \o [n \in 1..Len(r.handled) |->
                            [op |-> "handler", i |-> i, j |-> r.handled[n].j,
                             parent |-> parentReq.Name, child |-> r.handled[n].child,
                             args |-> r.handled[n].args]])

RECURSIVE processLoop_ErrorEntryNamedParentError(_, _, _, _, _)
\* processLoop naming the entry of an unregistered parent _parent_error, as it
\* names the slot inside, instead of after the requested parent
processLoop_ErrorEntryNamedParentError(t, parentReqs, i, tlResponse, cs) ==
    IF i > Len(parentReqs) THEN [resp |-> tlResponse, err |-> Nil, calls |-> cs]
    ELSE LET parentReq == parentReqs[i] IN
         IF parentReq.Name \notin DOMAIN t.parents
         THEN processLoop_ErrorEntryNamedParentError(t, parentReqs, i + 1,
                  AddResponse(tlResponse,
                      [Name |-> "_parent_error",
                       ChildsResponses |->
                           <<[Name |-> "_parent_error",
                              Response |-> NewError("parent_not_found",
                                  <<"Parent toolkit '", parentReq.Name, "' not registered">>)]>>]),
                  cs)
         ELSE LET r == HandleChildren(t.parents[parentReq.Name], parentReq.ToolKitChilds) IN
              processLoop_ErrorEntryNamedParentError(t, parentReqs, i + 1,
                  AddResponse(tlResponse, r.resp),
                  cs \o <<[op |-> "HandleChildren", i |-> i, parent |-> parentReq.Name]>>
                     \o [n \in 1..Len(r.handled) |->
                            [op |-> "handler", i |-> i, j |-> r.handled[n].j,
                             parent |-> parentReq.Name, child |-> r.handled[n].child,
                             args |-> r.handled[n].args]])

\* the registered parents that hold a child named as one of childRequests
HoldersOf(t, childRequests) ==
    {name \in DOMAIN t.parents :
        \E k \in 1..Len(childRequests) :
            childRequests[k].Name \in DOMAIN t.parents[name].children}

RECURSIVE processLoop_FallsBackToHolder(_, _, _, _, _)
\* processLoop handing the childs listed under an unregistered parent to a
\* registered parent that holds a child of one of their names
processLoop_FallsBackToHolder(t, parentReqs, i, tlResponse, cs) ==
    IF i > Len(parentReqs) THEN [resp |-> tlResponse, err |-> Nil, calls |-> cs]
    ELSE LET parentReq == parentReqs[i]
             holders == HoldersOf(t, parentReq.ToolKitChilds) IN
         IF parentReq.Name \notin DOMAIN t.parents /\ holders = {}
         THEN processLoop_FallsBackToHolder(t, parentReqs, i + 1,
                  AddResponse(tlResponse,
                      [Name |-> parentReq.Name,
                       ChildsResponses |->
                           <<[Name |-> "_parent_error",
                              Response |-> NewError("parent_not_found",
                                  <<"Parent toolkit '", parentReq.Name, "' not registered">>)]>>]),
                  cs)
         ELSE LET name == IF parentReq.Name \in DOMAIN t.parents THEN parentReq.Name
                          ELSE CHOOSE holder \in holders : TRUE
                  r == HandleChildren(t.parents[name], parentReq.ToolKitChilds) IN
              processLoop_FallsBackToHolder(t, parentReqs, i + 1,
                  AddResponse(tlResponse, r.resp),
                  cs \o <<[op |-> "HandleChildren", i |-> i, parent |-> name]>>
                     \o [n \in 1..Len(r.handled) |->
                            [op |-> "handler", i |-> i, j |-> r.handled[n].j,
                             parent |-> name, child |-> r.handled[n].child,
                             args |-> r.handled[n].args]])

RECURSIVE processLoop(_, _, _, _, _)
\* the loop of processToolKit over toolkitRequest.ToolKitParents[i..]:
\* tlResponse is the response built so far, cs the invocations made so far
processLoop(t, parentReqs, i, tlResponse, cs) ==
    IF i > Len(parentReqs) THEN [resp |-> tlResponse, err |-> Nil, calls |-> cs]
    ELSE LET parentReq == parentReqs[i] IN
         IF parentReq.Name \notin DOMAIN t.parents
         THEN processLoop(t, parentReqs, i + 1,
                  AddResponse(tlResponse,
                      [Name |-> parentReq.Name,
                       ChildsResponses |->
                           <<[Name |-> "_parent_error",
                              Response |-> NewError("parent_not_found",
                                  <<"Parent toolkit '", parentReq.Name, "' not registered">>)]>>]),
                  cs)
         ELSE LET r == HandleChildren(t.parents[parentReq.Name], parentReq.ToolKitChilds) IN
              processLoop(t, parentReqs, i + 1,
                  AddResponse(tlResponse, r.resp),
                  cs \o <<[op |-> "HandleChildren", i |-> i, parent |-> parentReq.Name]>>
                     \o [n \in 1..Len(r.handled) |->
                            [op |-> "handler", i |-> i, j |-> r.handled[n].j,
                             parent |-> parentReq.Name, child |-> r.handled[n].child,
                             args |-> r.handled[n].args]])

\* processToolKit without the check for an empty list of parents
processToolKit_NoEmptyCheck(t, toolkitRequest) ==
    processLoop(t, toolkitRequest.ToolKitParents, 1,
                [Name |-> GetToolkitName(t), Responses |-> NoResponses], <<>>)

\* processToolKit handing the first failure recorded in the tree back as the
\* call's error
processToolKit_ReturnsTreeError(t, toolkitRequest) ==
    LET tlResponse == [Name |-> GetToolkitName(t), Responses |-> NoResponses] IN
    IF Len(toolkitRequest.ToolKitParents) = 0
    THEN [resp |-> tlResponse,
          err |-> NewError("no_toolkit_parents", <<"No toolkit parents specified in the request">>),
          calls |-> <<>>]
    ELSE LET r == processLoop(t, toolkitRequest.ToolKitParents, 1, tlResponse, <<>>)
         IN [r EXCEPT !.err = FirstChildError(r.resp)]

\* processToolKit treating an empty list of parents as a success
processToolKit_EmptyReturnsNil(t, toolkitRequest) ==
    LET tlResponse == [Name |-> GetToolkitName(t), Responses |-> NoResponses] IN
    IF Len(toolkitRequest.ToolKitParents) = 0
    THEN [resp |-> tlResponse, err |-> Nil, calls |-> <<>>]
    ELSE processLoop(t, toolkitRequest.ToolKitParents, 1, tlResponse, <<>>)

\* processToolKit keeping the parent_not_found slot out of the tree and handing
\* the last such failure back as the call's error
processToolKit_ThrowsParentNotFound(t, toolkitRequest) ==
    LET tlResponse == [Name |-> GetToolkitName(t), Responses |-> NoResponses] IN
    IF Len(toolkitRequest.ToolKitParents) = 0
    THEN [resp |-> tlResponse,
          err |-> NewError("no_toolkit_parents", <<"No toolkit parents specified in the request">>),
          calls |-> <<>>]
    ELSE LET r == processLoop(t, toolkitRequest.ToolKitParents, 1, tlResponse, <<>>)
             missing == {i \in 1..Len(r.resp.Responses) :
                            /\ Len(r.resp.Responses[i].ChildsResponses) = 1
                            /\ r.resp.Responses[i].ChildsResponses[1].Name = "_parent_error"}
         IN IF missing = {} THEN r
            ELSE LET last == CHOOSE i \in missing : \A o \in missing : o <= i IN
                 [r EXCEPT !.err = r.resp.Responses[last].ChildsResponses[1].Response,
                           !.resp.Responses =
                               [i \in 1..Len(r.resp.Responses) |->
                                   IF i \in missing
                                   THEN [r.resp.Responses[i] EXCEPT !.ChildsResponses = <<>>]
                                   ELSE r.resp.Responses[i]]]

\* processToolKit naming the response after the request
processToolKit_NamesAfterRequest(t, toolkitRequest) ==
    LET tlResponse == [Name |-> toolkitRequest.Name, Responses |-> NoResponses] IN
    IF Len(toolkitRequest.ToolKitParents) = 0
    THEN [resp |-> tlResponse,
          err |-> NewError("no_toolkit_parents", <<"No toolkit parents specified in the request">>),
          calls |-> <<>>]
    ELSE processLoop(t, toolkitRequest.ToolKitParents, 1, tlResponse, <<>>)

processToolKit(t, toolkitRequest) ==
    LET tlResponse == [Name |-> GetToolkitName(t), Responses |-> NoResponses] IN
    IF Len(toolkitRequest.ToolKitParents) = 0
    THEN [resp |-> tlResponse,
          err |-> NewError("no_toolkit_parents", <<"No toolkit parents specified in the request">>),
          calls |-> <<>>]
    ELSE processLoop(t, toolkitRequest.ToolKitParents, 1, tlResponse, <<>>)

\* HandleToolKit returning the parse-error response with a nil error
HandleToolKit_SwallowsParseError(t, raw) ==
    LET parsed == parseToolKitInput(raw) IN
    IF parsed.err # Nil
    THEN [resp |-> [Name |-> "toolkit_request_parse_error",
                    Responses |->
                        <<[Name |-> "_parse_error",
                           ChildsResponses |->
                               <<[Name |-> "_input_error",
                                  Response |-> NewError("invalid_input_json", parsed.err.Message)]>>]>>],
          err |-> Nil,
          calls |-> <<>>]
    ELSE processToolKit(t, parsed.value)

\* HandleToolKit naming the parse-error response after the toolkit and its
\* entries after nothing
HandleToolKit_ParseErrorNamedAfterToolkit(t, raw) ==
    LET parsed == parseToolKitInput(raw) IN
    IF parsed.err # Nil
    THEN [resp |-> [Name |-> GetToolkitName(t),
                    Responses |->
                        <<[Name |-> "",
                           ChildsResponses |->
                               <<[Name |-> "",
                                  Response |-> NewError("invalid_input_json", parsed.err.Message)]>>]>>],
          err |-> parsed.err,
          calls |-> <<>>]
    ELSE processToolKit(t, parsed.value)

HandleToolKit(t, raw) ==
    LET parsed == parseToolKitInput(raw) IN
    IF parsed.err # Nil
    THEN [resp |-> [Name |-> "toolkit_request_parse_error",
                    Responses |->
                        <<[Name |-> "_parse_error",
                           ChildsResponses |->
                               <<[Name |-> "_input_error",
                                  Response |-> NewError("invalid_input_json", parsed.err.Message)]>>]>>],
          err |-> parsed.err,
          calls |-> <<>>]
    ELSE processToolKit(t, parsed.value)

----------------------------------------------------------------------------
(* The toolkits and the inputs of the model *)

\* builder_test.go: child1 succeeds, childWithError fails
child1 == NewChild("child1", "out1", FALSE)
childWithError == NewChild("childWithError", "", TRUE)

\* parent2 holds a tool named child1 as well, bound to another handler
parent1 == NewParent("parent1", <<child1, childWithError>>)
parent2 == NewParent("parent2", <<NewChild("child1", "out2", FALSE)>>)
emptyP == NewParent("emptyP", <<>>)
\* a parent named parent1 that a later registration replaces
staleParent1 == NewParent("parent1", <<NewChild("child1", "stale", FALSE)>>)

\* the parent lists New is called with: a nil parent and a repeated name among
\* the parents
Registrations ==
    { <<staleParent1, NilParent, parent2, parent1, emptyP>> }

ToolkitName == "test_handle_success"

\* names a request may use: registered ones and one that never is
ParentNames == {"parent1", "parent2", "non_existent_parent"}
ChildNames == {"child1", "childWithError", "non_existent_child"}
RequestNames == {ToolkitName, "toolkit"}

SeqUpTo(S, n) == UNION {[1..k -> S] : k \in 0..n}

ChildRequests == [Name : ChildNames, Args : ArgPayloads]

\* raw payloads that do not decode: no JSON at all, and JSON of the wrong shape
UndecodableInputs ==
    { [json |-> k, name |-> "", hasParents |-> FALSE, parents |-> <<>>] :
          k \in {"malformed", "mismatch"} }

\* raw payloads that are an object without "parents"
ParentlessInputs ==
    [json : {"object"}, name : RequestNames, hasParents : {FALSE}, parents : {<<>>}]

\* the ways to deal n childs, in order, to k parents: the parent of each child
Splits(n, k) ==
    {owner \in [1..n -> 1..k] : \A a, b \in 1..n : a < b => owner[a] <= owner[b]}

\* the raw payload of a request named name whose parents are named names, in
\* order, and list the childs of flat that owner deals to them
RequestInput(name, names, flat, owner) ==
    [json |-> "object", name |-> name, hasParents |-> TRUE,
     parents |->
        [i \in 1..Len(names) |->
            LET before == Cardinality({a \in 1..Len(flat) : owner[a] < i})
                mine == Cardinality({a \in 1..Len(flat) : owner[a] = i})
            IN [Name |-> names[i],
                ToolKitChilds |-> [m \in 1..mine |-> flat[before + m]]]]]

NoInput == [json |-> "none"]
NoResp == [Name |-> ""]

\* the locals of HandleToolKit while no call is followed step by step
NoFrame ==
    [ctx |-> "", processCtx |-> "", childrenCtx |-> "",
     request |-> [Name |-> "", ToolKitParents |-> <<>>],
     i |-> 0, j |-> 0,
     parentResponse |-> [Name |-> "", ChildsResponses |-> <<>>],
     running |-> {}, cancelled |-> FALSE]

\* the goroutines that may call HandleToolKit at the same time
CallIds == 1..MaxCallers

\* a goroutine that has not called HandleToolKit yet
IdleCall == [pc |-> "idle", input |-> NoInput, i |-> 0, resp |-> NoResp, err |-> Nil]

\* no goroutine has called HandleToolKit, and no tlResponse exists
NoGoroutines ==
    [call |-> [c \in CallIds |-> IdleCall],
     tlResponse |-> [c \in CallIds |-> NoResp]]

\* GenerateContent has not been called
NoConversation ==
    [pc |-> "idle", i |-> 0, history |-> <<>>, response |-> <<>>, b |-> 0,
     toolUsedInTurn |-> FALSE, thinkingInTurn |-> "", messageInTurn |-> "",
     result |-> <<>>, err |-> Nil, apiCalls |-> 0, toolkitCalls |-> <<>>]

\* the parents a call of New may list: nil, parents of different names, and two
\* different parents of the same name
ParentPool == {NilParent, parent1, staleParent1, parent2, emptyP}

\* toolkit_test.go: names New is called with
ToolkitNames == {ToolkitName, "empty_tk"}

\* toolkit_test.go: the provider names GetToolkitSchema is called with, and the
\* empty name
Providers == {"anthropic", "unknown_provider", ""}

\* the Toolkit variable before New has returned
NoToolkit == [parents |-> EmptyMap, name |-> ""]

\* the orders in which a range loop may visit the keys S of a map: Go leaves
\* the iteration order of a map unspecified
IterationOrders(S) ==
    {order \in [1..Cardinality(S) -> S] :
        \A a, b \in 1..Cardinality(S) : a # b => order[a] # order[b]}

\* for every parent of t, an order in which its children may be visited
ChildIterationOrders(t) ==
    {childOrder \in [DOMAIN t.parents ->
                        UNION {IterationOrders(DOMAIN t.parents[name].children) :
                                  name \in DOMAIN t.parents}] :
        \A name \in DOMAIN t.parents :
            childOrder[name] \in IterationOrders(DOMAIN t.parents[name].children)}

----------------------------------------------------------------------------
(* The state machine: one call at a time on a toolkit built by New *)

Init ==
    /\ \E ps \in Registrations :
          /\ tk = New(ToolkitName, ps)
          /\ registered = ps
    /\ phase = "idle"
    /\ op = "none"
    /\ input = NoInput
    /\ resp = NoResp
    /\ err = Nil
    /\ calls = <<>>
    /\ frame = NoFrame
    /\ goroutines = NoGoroutines
    /\ conv = NoConversation

\* HandleToolKit renaming the toolkit after the request it has handled
ReturnsFromHandleToolKit_AdoptsRequestName(raw, r) ==
    /\ input' = raw
    /\ resp' = r.resp
    /\ err' = r.err
    /\ calls' = r.calls
    /\ op' = "HandleToolKit"
    /\ phase' = "returned"
    /\ tk' = [tk EXCEPT !.name = raw.name]
    /\ UNCHANGED <<conv, goroutines, registered, frame>>

\* t.HandleToolKit(ctx, raw) has returned r
ReturnsFromHandleToolKit(raw, r) ==
    /\ input' = raw
    /\ resp' = r.resp
    /\ err' = r.err
    /\ calls' = r.calls
    /\ op' = "HandleToolKit"
    /\ phase' = "returned"
    /\ UNCHANGED <<conv, goroutines, tk, registered, frame>>

\* t.HandleToolKit(ctx, raw) called and returned, for every raw payload within
\* the bounds
CallHandleToolKit ==
    /\ phase = "idle"
    /\ \/ \E raw \in UndecodableInputs \cup ParentlessInputs :
              ReturnsFromHandleToolKit(raw, HandleToolKit(tk, raw))
       \/ \E name \in RequestNames, k \in 0..MaxParents, n \in 0..MaxChilds :
          \E names \in [1..k -> ParentNames], flat \in [1..n -> ChildRequests],
             owner \in Splits(n, k) :
              LET raw == RequestInput(name, names, flat, owner) IN
              ReturnsFromHandleToolKit(raw, HandleToolKit(tk, raw))

\* parent.HandleChildren(ctx, requests) called on a registered parent, as the
\* builder tests do
CallHandleChildren ==
    /\ phase = "idle"
    /\ \E name \in DOMAIN tk.parents, requests \in SeqUpTo(ChildRequests, MaxChilds) :
          LET r == HandleChildren(tk.parents[name], requests) IN
          /\ input' = [parent |-> name, childRequests |-> requests]
          /\ resp' = r.resp
          /\ calls' = [n \in 1..Len(r.handled) |->
                          [op |-> "handler", i |-> 1, j |-> r.handled[n].j,
                           parent |-> name, child |-> r.handled[n].child,
                           args |-> r.handled[n].args]]
    /\ err' = Nil
    /\ op' = "HandleChildren"
    /\ phase' = "returned"
    /\ UNCHANGED <<conv, goroutines, tk, registered, frame>>

\* child.Handle(ctx, args) called on a registered child, as the builder tests do
CallHandle ==
    /\ phase = "idle"
    /\ \E name \in DOMAIN tk.parents :
       \E child \in DOMAIN tk.parents[name].children, args \in ArgPayloads :
          LET r == Handle(tk.parents[name].children[child], args) IN
          /\ input' = [parent |-> name, child |-> child, args |-> args]
          /\ resp' = r.result
          /\ err' = r.err
          /\ calls' = [n \in 1..Len(r.handled) |->
                          [op |-> "handler", i |-> 1, j |-> 1,
                           parent |-> name, child |-> child, args |-> r.handled[n]]]
    /\ op' = "Handle"
    /\ phase' = "returned"
    /\ UNCHANGED <<conv, goroutines, tk, registered, frame>>

\* the caller drops the request and the response; the toolkit is ready for the
\* next call
Return ==
    /\ phase = "returned"
    /\ phase' = "idle"
    /\ op' = "none"
    /\ input' = NoInput
    /\ resp' = NoResp
    /\ err' = Nil
    /\ calls' = <<>>
    /\ frame' = NoFrame
    /\ UNCHANGED <<conv, goroutines, tk, registered>>

----------------------------------------------------------------------------
(* The registry: a toolkit is built by New and then asked for its name, its
   schema and its description *)

InitRegistry ==
    /\ tk = NoToolkit
    /\ registered = <<>>
    /\ phase = "unbuilt"
    /\ op = "none"
    /\ input = NoInput
    /\ resp = NoResp
    /\ err = Nil
    /\ calls = <<>>
    /\ frame = NoFrame
    /\ goroutines = NoGoroutines
    /\ conv = NoConversation

\* toolkit.New(name, parents...) called and returned
CallNew ==
    /\ phase = "unbuilt"
    /\ \E name \in ToolkitNames, parents \in SeqUpTo(ParentPool, MaxRegistered) :
          /\ tk' = New(name, parents)
          /\ registered' = parents
          /\ input' = [name |-> name, parents |-> parents]
    /\ resp' = NoResp
    /\ err' = Nil
    /\ calls' = <<>>
    /\ op' = "New"
    /\ phase' = "returned"
    /\ UNCHANGED <<conv, goroutines, frame>>

\* t.GetToolkitName() called and returned
CallGetToolkitName ==
    /\ phase = "idle"
    /\ resp' = GetToolkitName(tk)
    /\ input' = NoInput
    /\ err' = Nil
    /\ calls' = <<>>
    /\ op' = "GetToolkitName"
    /\ phase' = "returned"
    /\ UNCHANGED <<conv, goroutines, tk, registered, frame>>

\* t.GetToolkitSchema(provider) called and returned
CallGetToolkitSchema ==
    /\ phase = "idle"
    /\ \E provider \in Providers :
          /\ resp' = GetToolkitSchema(tk, provider)
          /\ input' = [provider |-> provider]
    /\ err' = Nil
    /\ calls' = <<>>
    /\ op' = "GetToolkitSchema"
    /\ phase' = "returned"
    /\ UNCHANGED <<conv, goroutines, tk, registered, frame>>

\* t.GetToolkitDescription() called and returned, its range loops having
\* visited the maps in one of the orders Go allows
CallGetToolkitDescription ==
    /\ phase = "idle"
    /\ \E parentOrder \in IterationOrders(DOMAIN tk.parents),
          childOrder \in ChildIterationOrders(tk) :
          resp' = GetToolkitDescription(tk, parentOrder, childOrder)
    /\ input' = NoInput
    /\ err' = Nil
    /\ calls' = <<>>
    /\ op' = "GetToolkitDescription"
    /\ phase' = "returned"
    /\ UNCHANGED <<conv, goroutines, tk, registered, frame>>

NextRegistry ==
    \/ CallNew
    \/ CallGetToolkitName
    \/ CallGetToolkitSchema
    \/ CallGetToolkitDescription
    \/ Return

SpecRegistry == InitRegistry /\ [][NextRegistry]_vars

Next ==
    \/ CallHandleToolKit
    \/ CallHandleChildren
    \/ CallHandle
    \/ CallGetToolkitName
    \/ CallGetToolkitSchema
    \/ CallGetToolkitDescription
    \/ Return

Spec == Init /\ [][Next]_vars

\* the toolkit serving HandleToolKit calls only
NextDispatch ==
    \/ CallHandleToolKit
    \/ Return

SpecDispatch == Init /\ [][NextDispatch]_vars

----------------------------------------------------------------------------
(* One HandleToolKit call followed step by step: the loop of processToolKit,
   the loop of HandleChildren inside it, and the handlers they wait for *)

\* the cancellation tokens a caller hands to HandleToolKit
Contexts == {"context.Background()", "context.WithTimeout()"}

\* the child requests of the calls that are followed step by step
StepChildRequests ==
    { [Name |-> "child1", Args |-> ArgsGood],
      [Name |-> "childWithError", Args |-> ArgsGood],
      [Name |-> "non_existent_child", Args |-> ArgsEmpty],
      [Name |-> "child1", Args |-> ArgsMalformed] }

\* a range loop visiting the elements of its slice from the last to the first
RangeOrder_Reversed(n, k) == n + 1 - k

\* the index of the element that the k-th iteration of a range loop over a
\* slice of n elements visits
RangeOrder(n, k) == k

\* processToolKit calling HandleChildren with a context of its own
HandleChildrenCall_Background(ctx, i, parentReq) ==
    [op |-> "HandleChildren", i |-> i, parent |-> parentReq.Name,
     ctx |-> "context.Background()"]

\* the call parent.HandleChildren(ctx, parentReq.ToolKitChilds) that
\* processToolKit makes for the parent at index i of the request, as it is
\* logged: the parent it is made on and the context it hands over
HandleChildrenCall(ctx, i, parentReq) ==
    [op |-> "HandleChildren", i |-> i, parent |-> parentReq.Name, ctx |-> ctx]

\* the entry processToolKit appends for a parent that is not registered
ParentNotFoundEntry(t, parentReq) ==
    processLoop(t, <<parentReq>>, 1,
                [Name |-> GetToolkitName(t), Responses |-> NoResponses], <<>>).resp.Responses[1]

\* the ParentResponse HandleChildren starts from
NewParentResponse(p) == HandleChildren(p, <<>>).resp

\* the entry HandleChildren appends for one child request
ChildEntry(p, req) == HandleChildren(p, <<req>>).resp.ChildsResponses[1]

\* Handle gets as far as calling the handler for this request
CallsHandler(p, req) == HandleChildren(p, <<req>>).handled # <<>>

\* ctx.Err() of a context that has been cancelled
ContextCanceled == ErrorString(<<"context canceled">>)

\* the entry HandleChildren appends for a child request whose handler gave up
\* because its context was cancelled and returned ctx.Err()
AbortedEntry(req) ==
    [Name |-> req.Name,
     Response |-> NewError("handler_execution_error",
                      <<"Error executing ", req.Name, ": ">> \o ContextCanceled.Message)]

\* the entries a handler that was called for req may leave when it returns: the
\* one of its own outcome and, once the context is cancelled, the one of a
\* handler that watches the context and gives up
HandlerEntries(p, req, ctxDone) ==
    {ChildEntry(p, req)} \cup (IF ctxDone THEN {AbortedEntry(req)} ELSE {})

\* processToolKit dropping the tree it has built when the context is cancelled
processToolKitReturn_DiscardsOnCancel(t, tlResponse, ctxDone) ==
    IF ctxDone
    THEN [resp |-> [Name |-> GetToolkitName(t), Responses |-> NoResponses],
          err |-> ContextCanceled]
    ELSE [resp |-> tlResponse, err |-> Nil]

\* what processToolKit returns after the last parent: the tree it has built
\* and a nil error, whether the context is cancelled or not
processToolKitReturn(t, tlResponse, ctxDone) ==
    [resp |-> tlResponse, err |-> Nil]

\* the parent request the loop of processToolKit is at
CurrentIndex == RangeOrder(Len(frame.request.ToolKitParents), frame.i)
CurrentParentReq == frame.request.ToolKitParents[CurrentIndex]

\* the child request the loop of HandleChildren is at
CurrentChildIndex == RangeOrder(Len(CurrentParentReq.ToolKitChilds), frame.j)
CurrentChildReq == CurrentParentReq.ToolKitChilds[CurrentChildIndex]

\* the caller calls t.HandleToolKit(ctx, raw)
EnterHandleToolKit ==
    /\ phase = "idle"
    /\ \/ \E raw \in UndecodableInputs \cup ParentlessInputs : input' = raw
       \/ \E k \in 0..MaxParents, n \in 0..MaxChilds :
          \E names \in [1..k -> ParentNames], flat \in [1..n -> StepChildRequests],
             owner \in Splits(n, k) :
              input' = RequestInput("toolkit", names, flat, owner)
    /\ \E ctx \in Contexts : frame' = [NoFrame EXCEPT !.ctx = ctx]
    /\ op' = "HandleToolKit"
    /\ phase' = "entered"
    /\ resp' = NoResp
    /\ err' = Nil
    /\ calls' = <<>>
    /\ UNCHANGED <<conv, goroutines, tk, registered>>

\* HandleToolKit parses the payload; it returns at once when the payload does
\* not decode or lists no parent, and enters the loop of processToolKit
\* otherwise
ParseInput ==
    /\ phase = "entered"
    /\ LET parsed == parseToolKitInput(input) IN
       IF parsed.err # Nil \/ Len(parsed.value.ToolKitParents) = 0
       THEN /\ resp' = HandleToolKit(tk, input).resp
            /\ err' = HandleToolKit(tk, input).err
            /\ phase' = "returned"
            /\ UNCHANGED frame
       ELSE /\ resp' = [Name |-> GetToolkitName(tk), Responses |-> NoResponses]
            /\ err' = Nil
            /\ phase' = "parents"
            /\ frame' = [frame EXCEPT !.processCtx = frame.ctx,
                                      !.request = parsed.value, !.i = 1]
    /\ UNCHANGED <<conv, goroutines, tk, registered, op, input, calls>>

\* one iteration of the loop of processToolKit, up to the call of
\* HandleChildren; after the last iteration processToolKit returns
NextParent ==
    /\ phase = "parents"
    /\ IF frame.i > Len(frame.request.ToolKitParents)
       THEN /\ phase' = "returned"
            /\ resp' = processToolKitReturn(tk, resp, frame.cancelled).resp
            /\ err' = processToolKitReturn(tk, resp, frame.cancelled).err
            /\ UNCHANGED <<calls, frame>>
       ELSE IF CurrentParentReq.Name \notin DOMAIN tk.parents
            THEN /\ resp' = AddResponse(resp, ParentNotFoundEntry(tk, CurrentParentReq))
                 /\ frame' = [frame EXCEPT !.i = @ + 1]
                 /\ UNCHANGED <<phase, calls, err>>
            ELSE LET call == HandleChildrenCall(frame.processCtx, CurrentIndex,
                                                CurrentParentReq) IN
                 /\ calls' = Append(calls, call)
                 /\ frame' = [frame EXCEPT
                        !.childrenCtx = call.ctx, !.j = 1,
                        !.parentResponse = NewParentResponse(tk.parents[CurrentParentReq.Name])]
                 /\ phase' = "childs"
                 /\ UNCHANGED <<resp, err>>
    /\ UNCHANGED <<conv, goroutines, tk, registered, op, input>>

\* one iteration of the loop of HandleChildren, up to the call of the handler;
\* after the last iteration HandleChildren returns and processToolKit appends
\* its response
NextChild ==
    /\ phase = "childs"
    /\ LET p == tk.parents[CurrentParentReq.Name] IN
       IF frame.j > Len(CurrentParentReq.ToolKitChilds)
       THEN /\ resp' = AddResponse(resp, frame.parentResponse)
            /\ frame' = [frame EXCEPT !.i = @ + 1, !.j = 0, !.childrenCtx = "",
                                      !.parentResponse = NoFrame.parentResponse]
            /\ phase' = "parents"
            /\ UNCHANGED calls
       ELSE IF CallsHandler(p, CurrentChildReq)
            THEN /\ calls' = Append(calls,
                        [op |-> "handler", i |-> CurrentIndex, j |-> CurrentChildIndex,
                         parent |-> CurrentParentReq.Name, child |-> CurrentChildReq.Name,
                         args |-> UnmarshalArgs(CurrentChildReq.Args).value,
                         ctx |-> frame.childrenCtx])
                 /\ frame' = [frame EXCEPT
                        !.running = @ \cup {<<CurrentIndex, CurrentChildIndex>>}]
                 /\ phase' = "handler"
                 /\ UNCHANGED resp
            ELSE /\ frame' = [frame EXCEPT
                        !.parentResponse = AddChildResponse(@, ChildEntry(p, CurrentChildReq)),
                        !.j = @ + 1]
                 /\ UNCHANGED <<phase, calls, resp>>
    /\ UNCHANGED <<conv, goroutines, tk, registered, op, input, err>>

\* a running handler returns to Handle, and Handle to HandleChildren, which
\* appends the entry and goes on to the next child
HandlerReturns ==
    /\ phase = "handler"
    /\ \E slot \in frame.running :
          LET parentReq == frame.request.ToolKitParents[slot[1]]
              req == parentReq.ToolKitChilds[slot[2]] IN
          \E entry \in HandlerEntries(tk.parents[parentReq.Name], req, frame.cancelled) :
              /\ calls' = Append(calls, [op |-> "handlerReturn", i |-> slot[1],
                                         j |-> slot[2], entry |-> entry])
              /\ frame' = [frame EXCEPT
                     !.running = @ \ {slot},
                     !.parentResponse = AddChildResponse(@, entry),
                     !.j = @ + 1]
    /\ phase' = "childs"
    /\ UNCHANGED <<conv, goroutines, tk, registered, op, input, resp, err>>

\* the caller cancels the context of the call while the call is in progress
CancelContext ==
    /\ phase \in {"entered", "parents", "childs", "handler"}
    /\ frame.ctx = "context.WithTimeout()"
    /\ ~frame.cancelled
    /\ frame' = [frame EXCEPT !.cancelled = TRUE]
    /\ calls' = Append(calls, [op |-> "cancel"])
    /\ UNCHANGED <<conv, goroutines, tk, registered, phase, op, input, resp, err>>

NextSteps ==
    \/ EnterHandleToolKit
    \/ ParseInput
    \/ NextParent
    \/ NextChild
    \/ HandlerReturns
    \/ CancelContext
    \/ Return

SpecSteps == Init /\ [][NextSteps]_vars

----------------------------------------------------------------------------
(* Several HandleToolKit calls at the same time on one toolkit: every call
   takes its steps, one iteration of the loop of processToolKit at a time, in
   any order with the steps of the others *)

\* the payloads of the calls that run at the same time: one that does not
\* decode, one without parents, and two requests that share no parent entry
ConcurrentInputs ==
    { [json |-> "malformed", name |-> "", hasParents |-> FALSE, parents |-> <<>>],
      [json |-> "object", name |-> "toolkit", hasParents |-> FALSE, parents |-> <<>>],
      RequestInput("toolkit", <<"parent1", "parent2">>,
                   <<[Name |-> "child1", Args |-> ArgsGood],
                     [Name |-> "child1", Args |-> ArgsEmpty]>>, <<1, 2>>),
      RequestInput("toolkit", <<"non_existent_parent", "parent1">>,
                   <<[Name |-> "childWithError", Args |-> ArgsGood]>>, <<2>>) }

\* every call building its response in one tlResponse kept with the toolkit
tlResponseOf_Shared(c) == 1

\* the tlResponse that call c builds and returns: processToolKit declares it
\* as a local variable, so every call has one of its own
tlResponseOf(c) == c

\* the request call c is processing
CallRequest(c) == parseToolKitInput(goroutines.call[c].input).value

\* goroutine c calls t.HandleToolKit(ctx, raw)
ConcurrentEnter(c) ==
    /\ goroutines.call[c].pc = "idle"
    /\ \E raw \in ConcurrentInputs :
          goroutines' = [goroutines EXCEPT !.call[c].pc = "entered",
                                           !.call[c].input = raw]
    /\ UNCHANGED <<tk, registered, phase, op, input, resp, err, calls, frame, conv>>

\* call c parses its payload; it returns at once when the payload does not
\* decode or lists no parent, and otherwise declares its tlResponse and enters
\* the loop of processToolKit
ConcurrentParse(c) ==
    /\ goroutines.call[c].pc = "entered"
    /\ LET raw == goroutines.call[c].input
           parsed == parseToolKitInput(raw) IN
       IF parsed.err # Nil \/ Len(parsed.value.ToolKitParents) = 0
       THEN goroutines' = [goroutines EXCEPT
                !.call[c].pc = "returned",
                !.call[c].resp = HandleToolKit(tk, raw).resp,
                !.call[c].err = HandleToolKit(tk, raw).err]
       ELSE goroutines' = [goroutines EXCEPT
                !.call[c].pc = "parents",
                !.call[c].i = 1,
                !.tlResponse[tlResponseOf(c)] =
                    [Name |-> GetToolkitName(tk), Responses |-> NoResponses]]
    /\ UNCHANGED <<tk, registered, phase, op, input, resp, err, calls, frame, conv>>

\* one iteration of the loop of processToolKit in call c: the entry of the
\* parent at index i is appended to the tlResponse of the call
ConcurrentParent(c) ==
    /\ goroutines.call[c].pc = "parents"
    /\ goroutines.call[c].i <= Len(CallRequest(c).ToolKitParents)
    /\ LET parentReq == CallRequest(c).ToolKitParents[goroutines.call[c].i]
           entry == IF parentReq.Name \notin DOMAIN tk.parents
                    THEN ParentNotFoundEntry(tk, parentReq)
                    ELSE HandleChildren(tk.parents[parentReq.Name],
                                        parentReq.ToolKitChilds).resp IN
       goroutines' = [goroutines EXCEPT
           !.call[c].i = @ + 1,
           !.tlResponse[tlResponseOf(c)] = AddResponse(@, entry)]
    /\ UNCHANGED <<tk, registered, phase, op, input, resp, err, calls, frame, conv>>

\* after the last iteration call c returns its tlResponse and a nil error
ConcurrentReturn(c) ==
    /\ goroutines.call[c].pc = "parents"
    /\ goroutines.call[c].i > Len(CallRequest(c).ToolKitParents)
    /\ goroutines' = [goroutines EXCEPT
           !.call[c].pc = "returned",
           !.call[c].resp = goroutines.tlResponse[tlResponseOf(c)],
           !.call[c].err = Nil]
    /\ UNCHANGED <<tk, registered, phase, op, input, resp, err, calls, frame, conv>>

NextConcurrent ==
    \/ \E c \in CallIds : ConcurrentEnter(c)
    \/ \E c \in CallIds : ConcurrentParse(c)
    \/ \E c \in CallIds : ConcurrentParent(c)
    \/ \E c \in CallIds : ConcurrentReturn(c)

SpecConcurrent == Init /\ [][NextConcurrent]_vars

----------------------------------------------------------------------------
(* The example client: GenerateContent calls the model, hands every tool-use
   block of the reply to HandleToolKit, and calls the model again with the
   results *)

\* the number of turns of the conversation loop: for i := 0; i < 5; i++
MaxTurns == 5

\* the payloads of the tool-use blocks: a request that succeeds, one whose only
\* tool fails, and bytes that do not decode
GoodToolInput ==
    RequestInput("toolkit", <<"parent1">>, <<[Name |-> "child1", Args |-> ArgsGood]>>, <<1>>)
FailingToolInput ==
    RequestInput("toolkit", <<"parent1">>,
                 <<[Name |-> "childWithError", Args |-> ArgsGood]>>, <<1>>)
MalformedToolInput ==
    [json |-> "malformed", name |-> "", hasParents |-> FALSE, parents |-> <<>>]

\* the replies of the model: text only, text and a tool-use block, two tool-use
\* blocks, and a block of a type the loop does not know
Replies ==
    { <<[type |-> "thinking", thinking |-> "plan"], [type |-> "text", text |-> "answer"]>>,
      <<[type |-> "text", text |-> "working"],
        [type |-> "tool_use", id |-> "toolu_1", input |-> GoodToolInput]>>,
      <<[type |-> "tool_use", id |-> "toolu_1", input |-> MalformedToolInput],
        [type |-> "tool_use", id |-> "toolu_2", input |-> FailingToolInput]>>,
      <<[type |-> "redacted_thinking"]>> }

\* anthropic.NewUserMessage(anthropic.NewTextBlock(prompt))
NewUserMessage(prompt) ==
    [role |-> "user", content |-> <<[type |-> "text", text |-> prompt]>>]

\* response.ToParam(): the reply as a message of the history
ToParam(response) == [role |-> "assistant", content |-> response]

\* anthropic.NewToolResultBlock(toolUseID, content, isError)
NewToolResultBlock(toolUseID, content, isError) ==
    [type |-> "tool_result", tool_use_id |-> toolUseID, content |-> content,
     is_error |-> isError]

\* the response holds the result of a handler, a value of a type the caller of
\* the builder chose
HoldsHandlerResult(toolkitResponse) ==
    \E i \in 1..Len(toolkitResponse.Responses) :
    \E j \in 1..Len(toolkitResponse.Responses[i].ChildsResponses) :
        ~IsToolKitError(toolkitResponse.Responses[i].ChildsResponses[j].Response)

\* whether json.Marshal(toolkitResponse) may succeed (TRUE) and may fail
\* (FALSE): the names and the ToolKitError values always serialize, the result
\* of a handler is of a type the engine does not know and may not
MarshalOutcomes(toolkitResponse) ==
    {TRUE} \cup (IF HoldsHandlerResult(toolkitResponse) THEN {FALSE} ELSE {})

\* json.Marshal(toolkitResponse) with the outcome ok
MarshalResponse(toolkitResponse, ok) ==
    IF ok
    THEN [bytes |-> <<"{\"name\":", toolkitResponse.Name, ",\"responses\":",
                      toolkitResponse.Responses, "}">>,
          err |-> Nil]
    ELSE [bytes |-> <<>>, err |-> ErrorString(<<"json: unsupported type">>)]

\* the tool-result block GenerateContent builds for the tool-use block id from
\* the error of HandleToolKit and the outcome of json.Marshal
ToolResultBlock(id, toolErr, marshaled) ==
    IF toolErr # Nil
    THEN NewToolResultBlock(id, marshaled.bytes, TRUE)
    ELSE IF marshaled.err # Nil
         THEN NewToolResultBlock(id,
                  <<"Error marshaling result: ">> \o marshaled.err.Message, TRUE)
         ELSE NewToolResultBlock(id, marshaled.bytes, FALSE)

\* the conversation loop going on whatever the number of turns
LoopContinues_Unbounded(i) == TRUE

\* the condition of the conversation loop
LoopContinues(i) == i < MaxTurns

\* fmt.Sprintf("Thinking: %s\nMessage: %s", finalThinking, finalMessageResponse)
FinalResult(finalThinking, finalMessageResponse) ==
    <<"Thinking: ", finalThinking, "\nMessage: ", finalMessageResponse>>

\* client.GenerateContent(prompt) is called
StartGenerateContent ==
    /\ conv.pc = "idle"
    /\ conv' = [NoConversation EXCEPT !.pc = "loop",
                                      !.history = <<NewUserMessage("prompt")>>]
    /\ UNCHANGED <<tk, registered, phase, op, input, resp, err, calls, frame, goroutines>>

\* a turn of the loop begins: c.Client.Messages.New(ctx, *c.Params) fails, and
\* GenerateContent returns the error, or it answers with a reply, which is
\* appended to the history
CallMessagesNew ==
    /\ conv.pc = "loop"
    /\ LoopContinues(conv.i)
    /\ \/ conv' = [conv EXCEPT !.pc = "done", !.apiCalls = @ + 1,
                               !.result = <<>>,
                               !.err = ErrorString(<<"anthropic: request failed">>)]
       \/ \E response \in Replies :
              conv' = [conv EXCEPT !.pc = "blocks", !.apiCalls = @ + 1,
                                   !.response = response, !.b = 1,
                                   !.history = Append(@, ToParam(response)),
                                   !.toolUsedInTurn = FALSE,
                                   !.thinkingInTurn = "", !.messageInTurn = ""]
    /\ UNCHANGED <<tk, registered, phase, op, input, resp, err, calls, frame, goroutines>>

\* the loop over response.Content handles the block at b
ProcessBlock ==
    /\ conv.pc = "blocks"
    /\ conv.b <= Len(conv.response)
    /\ LET block == conv.response[conv.b] IN
       CASE block.type = "text" ->
               conv' = [conv EXCEPT !.messageInTurn = block.text, !.b = @ + 1]
         [] block.type = "thinking" ->
               conv' = [conv EXCEPT !.thinkingInTurn = block.thinking, !.b = @ + 1]
         [] block.type = "tool_use" ->
               LET r == HandleToolKit(tk, block.input) IN
               \E ok \in MarshalOutcomes(r.resp) :
                   LET marshaled == MarshalResponse(r.resp, ok)
                       toolResultMessage ==
                           [role |-> "user",
                            content |-> <<ToolResultBlock(block.id, r.err, marshaled)>>]
                   IN conv' = [conv EXCEPT
                          !.toolUsedInTurn = TRUE,
                          !.history = Append(@, toolResultMessage),
                          !.toolkitCalls = Append(@,
                              [turn |-> conv.i + 1, block |-> conv.b, input |-> block.input,
                               toolErr |-> r.err, marshalErr |-> marshaled.err]),
                          !.b = @ + 1]
         [] OTHER ->
               conv' = [conv EXCEPT !.b = @ + 1]
    /\ UNCHANGED <<tk, registered, phase, op, input, resp, err, calls, frame, goroutines>>

\* after the last block: a turn that used a tool is followed by the next turn;
\* a turn that used none ends the loop, and GenerateContent returns its text
EndTurn ==
    /\ conv.pc = "blocks"
    /\ conv.b > Len(conv.response)
    /\ IF conv.toolUsedInTurn
       THEN conv' = [conv EXCEPT !.pc = "loop", !.i = @ + 1]
       ELSE conv' = [conv EXCEPT !.pc = "done",
                        !.result = FinalResult(conv.thinkingInTurn, conv.messageInTurn),
                        !.err = Nil]
    /\ UNCHANGED <<tk, registered, phase, op, input, resp, err, calls, frame, goroutines>>

\* the loop has run all its turns: GenerateContent returns without a text
LoopEnds ==
    /\ conv.pc = "loop"
    /\ ~LoopContinues(conv.i)
    /\ conv' = [conv EXCEPT !.pc = "done", !.result = FinalResult("", ""), !.err = Nil]
    /\ UNCHANGED <<tk, registered, phase, op, input, resp, err, calls, frame, goroutines>>

NextLoop ==
    \/ StartGenerateContent
    \/ CallMessagesNew
    \/ ProcessBlock
    \/ EndTurn
    \/ LoopEnds

SpecLoop == Init /\ [][NextLoop]_vars

\* every call GenerateContent makes returns, and GenerateContent goes on
SpecLoopFair == SpecLoop /\ WF_vars(NextLoop)

----------------------------------------------------------------------------
(* What the claims speak of *)

\* a call of method o has returned
Returned(o) == phase = "returned" /\ op = o

\* the payload of the returned HandleToolKit call decodes into a request
Decodes == input.json = "object"

\* the parents that request lists
Requested == IF input.hasParents THEN input.parents ELSE <<>>

Registered(name) == name \in DOMAIN tk.parents

\* the child named child is registered in the registered parent named name
RegisteredChild(name, child) == child \in DOMAIN tk.parents[name].children

\* the names of a sequence of entries or requests, in order
Names(entries) == [k \in 1..Len(entries) |-> entries[k].Name]

\* the invocations of kind o among the calls of the returned call
CallsOf(o) == {n \in 1..Len(calls) : calls[n].op = o}

\* the argument payloads that fail to decode: malformed or of the wrong type
FailsToDecode(args) == args \in {ArgsMalformed, ArgsMismatch}

HasCode(v, code) == IsToolKitError(v) /\ v.Code = code

----------------------------------------------------------------------------
(* C1: the shape of the response mirrors the request *)

\* C1 as stated: a request of N >= 1 parents, the i-th listing M_i childs, gets
\* a response of exactly N parent entries in request order, the i-th with
\* exactly M_i child entries in request order, registered or not.
C1_MirrorsEveryParent ==
    (Returned("HandleToolKit") /\ Decodes /\ Len(Requested) >= 1) =>
        /\ Len(resp.Responses) = Len(Requested)
        /\ \A i \in 1..Len(Requested) :
              /\ resp.Responses[i].Name = Requested[i].Name
              /\ Names(resp.Responses[i].ChildsResponses) = Names(Requested[i].ToolKitChilds)

\* C1 amended: the response has exactly N parent entries in request order; the
\* entry of a registered parent has exactly M_i child entries in request order,
\* and the entry of an unregistered parent has exactly one child entry, whatever
\* M_i is.
C1_MirrorsRegisteredParents ==
    (Returned("HandleToolKit") /\ Decodes /\ Len(Requested) >= 1) =>
        /\ Len(resp.Responses) = Len(Requested)
        /\ \A i \in 1..Len(Requested) :
              /\ resp.Responses[i].Name = Requested[i].Name
              /\ Registered(Requested[i].Name) =>
                    Names(resp.Responses[i].ChildsResponses) = Names(Requested[i].ToolKitChilds)
              /\ ~Registered(Requested[i].Name) =>
                    Len(resp.Responses[i].ChildsResponses) = 1

\* a request of two parents has returned: an unregistered one that lists no
\* child, then a registered one that lists an unregistered and a registered
\* child
C1_Witness ==
    /\ Returned("HandleToolKit") /\ Decodes /\ Len(Requested) = 2
    /\ ~Registered(Requested[1].Name) /\ Len(Requested[1].ToolKitChilds) = 0
    /\ Registered(Requested[2].Name)
    /\ Names(Requested[2].ToolKitChilds) = <<"non_existent_child", "child1">>
    /\ Len(resp.Responses) = 2
    /\ Len(resp.Responses[1].ChildsResponses) = 1
    /\ Len(resp.Responses[2].ChildsResponses) = 2

----------------------------------------------------------------------------
(* C2: a payload that does not decode *)

\* C2: when the raw payload fails to decode, HandleToolKit returns a non-nil
\* error and a response of exactly one parent entry holding exactly one child
\* entry whose result is a ToolKitError with code invalid_input_json, and it
\* invokes no HandleChildren and no handler.
C2_ParseError ==
    (Returned("HandleToolKit") /\ ~Decodes) =>
        /\ err # Nil
        /\ Len(resp.Responses) = 1
        /\ Len(resp.Responses[1].ChildsResponses) = 1
        /\ HasCode(resp.Responses[1].ChildsResponses[1].Response, "invalid_input_json")
        /\ calls = <<>>

\* a call with a payload that is no JSON has returned, on a toolkit that has
\* parents it could have dispatched to
C2_Witness ==
    /\ Returned("HandleToolKit") /\ input.json = "malformed"
    /\ DOMAIN tk.parents # {}
    /\ err # Nil
    /\ Len(resp.Responses) = 1

----------------------------------------------------------------------------
(* C3: a request without parents *)

----------------------------------------------------------------------------
(* C4: a parent that is not registered *)

\* C4: a requested parent whose name is not in the registry yields, at its
\* position in the response, a parent entry of the requested name that holds
\* exactly one child entry, whose result is a ToolKitError with code
\* parent_not_found.
C4_ParentNotFound ==
    (Returned("HandleToolKit") /\ Decodes) =>
        \A i \in 1..Len(Requested) :
            ~Registered(Requested[i].Name) =>
                /\ Len(resp.Responses) >= i
                /\ resp.Responses[i].Name = Requested[i].Name
                /\ Len(resp.Responses[i].ChildsResponses) = 1
                /\ HasCode(resp.Responses[i].ChildsResponses[1].Response, "parent_not_found")

\* a request whose second parent is unregistered, after a registered one, has
\* returned with the error entry in second place
C4_Witness ==
    /\ Returned("HandleToolKit") /\ Decodes /\ Len(Requested) = 2
    /\ Registered(Requested[1].Name) /\ ~Registered(Requested[2].Name)
    /\ Len(Requested[1].ToolKitChilds) = 1
    /\ Len(Requested[2].ToolKitChilds) = 1
    /\ HasCode(resp.Responses[2].ChildsResponses[1].Response, "parent_not_found")

----------------------------------------------------------------------------
(* The slots of a returned call *)

\* the childs requested of the parent a returned HandleChildren call was made on
DirectRequests == input.childRequests

\* the entry a returned HandleToolKit call holds for child j of parent i, if
\* the response has one there
HasEntry(i, j) ==
    /\ Len(resp.Responses) >= i
    /\ Len(resp.Responses[i].ChildsResponses) >= j

Entry(i, j) == resp.Responses[i].ChildsResponses[j]

\* the handler invocations made for child j of parent i
HandlerCalls(i, j) ==
    {n \in CallsOf("handler") : calls[n].i = i /\ calls[n].j = j}

\* the slots (i, j) of the request whose parent is registered
RegisteredSlots ==
    UNION {{<<i, j>> : j \in 1..Len(Requested[i].ToolKitChilds)} :
              i \in {k \in 1..Len(Requested) : Registered(Requested[k].Name)}}

SlotRequest(ij) == Requested[ij[1]].ToolKitChilds[ij[2]]
SlotParent(ij) == tk.parents[Requested[ij[1]].Name]
SlotRegistered(ij) == SlotRequest(ij).Name \in DOMAIN SlotParent(ij).children
SlotChild(ij) == SlotParent(ij).children[SlotRequest(ij).Name]

----------------------------------------------------------------------------
(* C5: a child that is not registered *)

\* C5: within a registered parent, a requested child whose name is not
\* registered in that parent yields, at its position, a child entry of the
\* requested name whose result is a ToolKitError with code child_not_found, and
\* the error HandleToolKit returns stays nil.
C5_ChildNotFound ==
    /\ (Returned("HandleToolKit") /\ Decodes) =>
          \A ij \in RegisteredSlots :
              ~SlotRegistered(ij) =>
                  /\ HasEntry(ij[1], ij[2])
                  /\ Entry(ij[1], ij[2]).Name = SlotRequest(ij).Name
                  /\ HasCode(Entry(ij[1], ij[2]).Response, "child_not_found")
                  /\ err = Nil
    /\ Returned("HandleChildren") =>
          \A j \in 1..Len(DirectRequests) :
              ~RegisteredChild(input.parent, DirectRequests[j].Name) =>
                  /\ Len(resp.ChildsResponses) >= j
                  /\ resp.ChildsResponses[j].Name = DirectRequests[j].Name
                  /\ HasCode(resp.ChildsResponses[j].Response, "child_not_found")

\* a request that lists an unregistered child after a registered one, under a
\* registered parent, has returned with child_not_found in second place
C5_Witness ==
    /\ Returned("HandleToolKit") /\ Decodes /\ Len(Requested) = 1
    /\ Registered(Requested[1].Name)
    /\ Names(Requested[1].ToolKitChilds) = <<"child1", "non_existent_child">>
    /\ HasEntry(1, 2)
    /\ HasCode(Entry(1, 2).Response, "child_not_found")
    /\ err = Nil

----------------------------------------------------------------------------
(* C6: arguments that do not decode *)

\* C6: when the argument payload of a registered child is malformed or of the
\* wrong type, the child's invocation fails with a ToolKitError with code
\* invalid_arguments and the handler is called zero times for that slot.
C6_InvalidArguments ==
    /\ (Returned("Handle") /\ FailsToDecode(input.args)) =>
          /\ HasCode(err, "invalid_arguments")
          /\ calls = <<>>
    /\ (Returned("HandleToolKit") /\ Decodes) =>
          \A ij \in RegisteredSlots :
              (SlotRegistered(ij) /\ FailsToDecode(SlotRequest(ij).Args)) =>
                  /\ HasEntry(ij[1], ij[2])
                  /\ HasCode(Entry(ij[1], ij[2]).Response, "invalid_arguments")
                  /\ HandlerCalls(ij[1], ij[2]) = {}

\* a request has returned that hands a malformed payload to one registered
\* child and a payload of the wrong type to another, and a handler ran for
\* neither
C6_Witness ==
    /\ Returned("HandleToolKit") /\ Decodes /\ Len(Requested) = 1
    /\ Registered(Requested[1].Name)
    /\ Len(Requested[1].ToolKitChilds) = 2
    /\ SlotRegistered(<<1, 1>>) /\ SlotRequest(<<1, 1>>).Args = ArgsMalformed
    /\ SlotRegistered(<<1, 2>>) /\ SlotRequest(<<1, 2>>).Args = ArgsMismatch
    /\ HasEntry(1, 2)
    /\ HasCode(Entry(1, 1).Response, "invalid_arguments")
    /\ calls = <<[op |-> "HandleChildren", i |-> 1, parent |-> Requested[1].Name]>>

----------------------------------------------------------------------------
(* C7: arguments that leave out a required field *)

----------------------------------------------------------------------------
(* C8: a handler that fails *)

\* the error the handler of child c returns for the arguments args decode to
RawHandlerError(c, args) == ErrorString(<<"error_from_", c.name>>)

\* v is the wrapped failure of child c's handler: a ToolKitError with code
\* handler_execution_error whose message contains the handler's own message,
\* and not the handler's error value itself
WrapsHandlerError(v, c, args) ==
    /\ HasCode(v, "handler_execution_error")
    /\ Contains(v.Message, RawHandlerError(c, args).Message)
    /\ v # RawHandlerError(c, args)

\* C8: when the handler bound to a child returns a failure, the child's entry
\* carries a ToolKitError whose code is handler_execution_error and whose
\* message contains the handler's original message; the handler's own error
\* value is neither placed in the response nor returned by Handle.
C8_HandlerError ==
    /\ (Returned("Handle") /\ ~FailsToDecode(input.args)
            /\ tk.parents[input.parent].children[input.child].shouldError) =>
          /\ WrapsHandlerError(err, tk.parents[input.parent].children[input.child], input.args)
          /\ resp # RawHandlerError(tk.parents[input.parent].children[input.child], input.args)
    /\ (Returned("HandleToolKit") /\ Decodes) =>
          \A ij \in RegisteredSlots :
              (SlotRegistered(ij) /\ ~FailsToDecode(SlotRequest(ij).Args)
                    /\ SlotChild(ij).shouldError) =>
                  /\ HasEntry(ij[1], ij[2])
                  /\ WrapsHandlerError(Entry(ij[1], ij[2]).Response, SlotChild(ij),
                                       SlotRequest(ij).Args)

\* a request has returned whose only child is one whose handler fails, called
\* with arguments that decode, and its entry wraps the handler's message
C8_Witness ==
    /\ Returned("HandleToolKit") /\ Decodes /\ Len(Requested) = 1
    /\ Registered(Requested[1].Name)
    /\ Len(Requested[1].ToolKitChilds) = 1
    /\ SlotRegistered(<<1, 1>>) /\ SlotChild(<<1, 1>>).shouldError
    /\ SlotRequest(<<1, 1>>).Args = ArgsGood
    /\ Cardinality(HandlerCalls(1, 1)) = 1
    /\ HasEntry(1, 1)
    /\ Entry(1, 1).Response.Message =
          <<"Error executing ", "childWithError", ": ", "error_from_", "childWithError">>

----------------------------------------------------------------------------
(* C9: a failing child does not affect its siblings *)

\* a request for a registered child whose handler succeeds
SucceedingRequest == [Name |-> "child1", Args |-> ArgsGood]

Failed(entry) ==
    \/ HasCode(entry.Response, "child_not_found")
    \/ HasCode(entry.Response, "invalid_arguments")
    \/ HasCode(entry.Response, "handler_execution_error")

\* the child of parent p that request req names is registered, decodes its
\* arguments and so has its handler called
ReachesHandler(p, req) ==
    /\ req.Name \in DOMAIN p.children
    /\ ~FailsToDecode(req.Args)

\* the entries of one HandleChildren dispatch of parent p over requests, of
\* which handlerSlots are the slots a handler was called for: a failure at
\* slot j leaves every other slot k dispatched, with the entry it has when slot
\* j succeeds instead
Isolated(p, requests, entries, handlerSlots) ==
    /\ Len(entries) = Len(requests)
    /\ \A j \in 1..Len(requests) :
          Failed(entries[j]) =>
              LET others == HandleChildren(p, [requests EXCEPT ![j] = SucceedingRequest])
              IN \A k \in (1..Len(requests)) \ {j} :
                    /\ entries[k] = others.resp.ChildsResponses[k]
                    /\ ReachesHandler(p, requests[k]) => k \in handlerSlots

\* C9: in one dispatch of a parent, a failure of the child at position j
\* (child_not_found, invalid_arguments or handler_execution_error) never keeps
\* the childs at other positions from being dispatched, and each of their
\* entries is the one it would be had the failing child succeeded.
C9_FailureIsolation ==
    /\ Returned("HandleChildren") =>
          Isolated(tk.parents[input.parent], DirectRequests, resp.ChildsResponses,
                   {calls[n].j : n \in CallsOf("handler")})
    /\ (Returned("HandleToolKit") /\ Decodes) =>
          \A i \in 1..Len(Requested) :
              Registered(Requested[i].Name) =>
                  /\ Len(resp.Responses) >= i
                  /\ Isolated(tk.parents[Requested[i].Name], Requested[i].ToolKitChilds,
                              resp.Responses[i].ChildsResponses,
                              {calls[n].j : n \in {m \in CallsOf("handler") : calls[m].i = i}})

\* a dispatch has returned whose first child failed in its handler and whose
\* second child ran and holds its result
C9_Witness ==
    /\ Returned("HandleChildren")
    /\ Len(DirectRequests) = 2
    /\ DirectRequests[1] = [Name |-> "childWithError", Args |-> ArgsGood]
    /\ DirectRequests[2] = [Name |-> "child1", Args |-> ArgsGood]
    /\ Len(resp.ChildsResponses) = 2
    /\ HasCode(resp.ChildsResponses[1].Response, "handler_execution_error")
    /\ resp.ChildsResponses[2].Response.type = "SimpleResponse"
    /\ Len(calls) = 2

----------------------------------------------------------------------------
(* C10: every listed parent is processed *)

\* the HandleChildren invocations made for parent i of the request
Dispatches(i) ==
    {n \in CallsOf("HandleChildren") : calls[n].i = i}

\* C10: for a request of at least one parent, HandleChildren is invoked exactly
\* once for every listed occurrence of a registered parent, on the parent of
\* that name, whatever came before it in the list, and it is invoked for
\* nothing else.
C10_EveryParentDispatched ==
    (Returned("HandleToolKit") /\ Decodes /\ Len(Requested) >= 1) =>
        /\ \A i \in 1..Len(Requested) :
              Registered(Requested[i].Name) =>
                  /\ Cardinality(Dispatches(i)) = 1
                  /\ \A n \in Dispatches(i) : calls[n].parent = Requested[i].Name
        /\ Cardinality(CallsOf("HandleChildren")) =
              Cardinality({i \in 1..Len(Requested) : Registered(Requested[i].Name)})

\* a request has returned that lists an unregistered parent and then a
\* registered one, and HandleChildren ran for the second
C10_Witness ==
    /\ Returned("HandleToolKit") /\ Decodes /\ Len(Requested) = 2
    /\ ~Registered(Requested[1].Name)
    /\ Registered(Requested[2].Name)
    /\ Len(Requested[2].ToolKitChilds) = 1
    /\ Cardinality(Dispatches(2)) = 1
    /\ Cardinality(HandlerCalls(2, 1)) = 1

----------------------------------------------------------------------------
(* C11: failures below the top level never become the call's error *)

\* the slot ij of a registered parent ends in a failure: its child is not
\* registered, its arguments do not decode, or its handler fails
SlotFails(ij) ==
    \/ ~SlotRegistered(ij)
    \/ FailsToDecode(SlotRequest(ij).Args)
    \/ SlotChild(ij).shouldError

\* every position (i, j) at which the response holds a child entry
EntrySlots ==
    UNION {{<<i, j>> : j \in 1..Len(resp.Responses[i].ChildsResponses)} :
              i \in 1..Len(resp.Responses)}

\* C11: for every decoded request of at least one parent, HandleToolKit returns
\* a nil error whatever mix of unregistered parents, unregistered childs,
\* argument decode failures and handler failures the request produces; each of
\* those failures is a ToolKitError in the response tree, and no entry of the
\* tree holds an error value of another type.
C11_NilErrorOnDispatch ==
    (Returned("HandleToolKit") /\ Decodes /\ Len(Requested) >= 1) =>
        /\ err = Nil
        /\ \A i \in 1..Len(Requested) :
              ~Registered(Requested[i].Name) =>
                  /\ HasEntry(i, 1)
                  /\ IsToolKitError(Entry(i, 1).Response)
        /\ \A ij \in RegisteredSlots :
              SlotFails(ij) =>
                  /\ HasEntry(ij[1], ij[2])
                  /\ IsToolKitError(Entry(ij[1], ij[2]).Response)
        /\ \A ij \in EntrySlots :
              Entry(ij[1], ij[2]).Response.type \in {"ToolKitError", "SimpleResponse"}

\* a request has returned with a nil error that lists an unregistered parent
\* and a registered one whose first child is unregistered and whose second
\* child fails in its handler
C11_Witness ==
    /\ Returned("HandleToolKit") /\ Decodes /\ Len(Requested) = 2
    /\ ~Registered(Requested[1].Name)
    /\ Registered(Requested[2].Name)
    /\ Len(Requested[2].ToolKitChilds) = 2
    /\ ~SlotRegistered(<<2, 1>>)
    /\ SlotRegistered(<<2, 2>>) /\ SlotChild(<<2, 2>>).shouldError
    /\ ~FailsToDecode(SlotRequest(<<2, 2>>).Args)
    /\ err = Nil
    /\ HasCode(Entry(1, 1).Response, "parent_not_found")
    /\ HasCode(Entry(2, 1).Response, "child_not_found")
    /\ HasCode(Entry(2, 2).Response, "handler_execution_error")

----------------------------------------------------------------------------
(* C12: which failures are the call's error *)

\* C12 as stated: only a top-level decode failure is a call-level error: for
\* every payload that decodes into a request, HandleToolKit returns a nil
\* error.
C12_OnlyDecodeFailureIsError ==
    (Returned("HandleToolKit") /\ Decodes) => err = Nil

\* C12 amended: HandleToolKit returns a non-nil error exactly when the payload
\* fails to decode or decodes into a request of zero parents; for every payload
\* that decodes into a request of at least one parent the error is nil, and for
\* a decoded request of zero parents it is the ToolKitError no_toolkit_parents.
C12_ErrorOnlyWithoutParents ==
    Returned("HandleToolKit") =>
        /\ (err # Nil) <=> (~Decodes \/ Len(Requested) = 0)
        /\ (Decodes /\ Len(Requested) = 0) => HasCode(err, "no_toolkit_parents")
        /\ ~Decodes => ~IsToolKitError(err)

\* a payload that is an object without a "parents" member, named as the
\* toolkit is, has decoded and come back with a non-nil error
C12_Witness ==
    /\ Returned("HandleToolKit") /\ Decodes
    /\ ~input.hasParents
    /\ input.name = tk.name
    /\ err # Nil

----------------------------------------------------------------------------
(* C13: where each failure is recorded *)

\* what C13 says of the five failures that have a place in the request tree:
\* each is the result of the entry at the place where it occurred
EmbeddedAtItsPlace ==
    /\ ~Decodes =>
          /\ HasEntry(1, 1)
          /\ HasCode(Entry(1, 1).Response, "invalid_input_json")
          /\ Entry(1, 1).Response.Message = err.Message
    /\ Decodes =>
          /\ \A i \in 1..Len(Requested) :
                ~Registered(Requested[i].Name) =>
                    /\ HasEntry(i, 1)
                    /\ HasCode(Entry(i, 1).Response, "parent_not_found")
                    /\ Contains(Entry(i, 1).Response.Message, <<Requested[i].Name>>)
          /\ \A ij \in RegisteredSlots :
                /\ ~SlotRegistered(ij) =>
                      /\ HasEntry(ij[1], ij[2])
                      /\ HasCode(Entry(ij[1], ij[2]).Response, "child_not_found")
                /\ (SlotRegistered(ij) /\ FailsToDecode(SlotRequest(ij).Args)) =>
                      /\ HasEntry(ij[1], ij[2])
                      /\ HasCode(Entry(ij[1], ij[2]).Response, "invalid_arguments")
                /\ (SlotRegistered(ij) /\ ~FailsToDecode(SlotRequest(ij).Args)
                        /\ SlotChild(ij).shouldError) =>
                      /\ HasEntry(ij[1], ij[2])
                      /\ HasCode(Entry(ij[1], ij[2]).Response, "handler_execution_error")

----------------------------------------------------------------------------
(* C14: what New registers *)

\* the positions of the list New was called with that hold a parent
NonNil == {k \in 1..Len(registered) : ~registered[k].isNil}

\* the last position of that list that holds a parent named name
LastRegistration(name) ==
    CHOOSE k \in NonNil :
        /\ registered[k].name = name
        /\ \A o \in NonNil : registered[o].name = name => o <= k

\* C14: for any list of parents given to New, nil entries and repeated names
\* included, New returns a toolkit of the given name whose registry has as keys
\* exactly the names of the non-nil parents of the list, each mapped to the
\* last non-nil parent of the list that carries the name.
C14_LastWriteWins ==
    /\ phase # "unbuilt" =>
          /\ DOMAIN tk.parents = {registered[k].name : k \in NonNil}
          /\ \A name \in DOMAIN tk.parents :
                tk.parents[name] = registered[LastRegistration(name)]
    /\ Returned("New") =>
          /\ registered = input.parents
          /\ tk.name = input.name

\* New has returned from a list that holds a parent, a nil entry and then
\* another parent of the same name, and the registry holds the latter only
C14_Witness ==
    /\ Returned("New")
    /\ registered = <<parent1, NilParent, staleParent1>>
    /\ DOMAIN tk.parents = {"parent1"}
    /\ tk.parents["parent1"] = staleParent1

----------------------------------------------------------------------------
(* C15: the order of the manifest *)

\* the names of the model in the order in which Go compares strings
NamesInOrder == <<"child1", "childWithError", "emptyP", "parent1", "parent2">>

\* a < b for two of those names
NameBefore(a, b) ==
    \E x, y \in 1..Len(NamesInOrder) :
        NamesInOrder[x] = a /\ NamesInOrder[y] = b /\ x < y

\* the names of S sorted
SortedByName(S) ==
    CHOOSE order \in IterationOrders(S) :
        \A a, b \in 1..Cardinality(S) : a < b => NameBefore(order[a], order[b])

\* the one text that lists the parents of t, and the children of each, sorted
\* by name
SortedDescription(t) ==
    GetToolkitDescription(t, SortedByName(DOMAIN t.parents),
        [name \in DOMAIN t.parents |-> SortedByName(DOMAIN t.parents[name].children)])

\* C15: GetToolkitDescription enumerates the parents, and the children of each
\* parent, sorted by name: every call on a toolkit returns the one text that
\* lists them in that order, whatever order the maps are iterated in, so that
\* two calls on toolkits of the same registrations return the same text.
C15_SortedManifest ==
    Returned("GetToolkitDescription") => resp = SortedDescription(tk)

----------------------------------------------------------------------------
(* C16: what the manifest lists *)

\* the positions of a text where a parent element and a child element open;
\* the name follows the opening piece
ParentTags(text) == {k \in 1..(Len(text) - 1) : text[k] = "<parent name=\""}
ChildTags(text) == {k \in 1..(Len(text) - 1) : text[k] = "<child name=\""}

\* the positions of the block of the parent that opens at k: those after k, up
\* to where the next parent opens
BlockOf(text, k) ==
    {m \in (k + 1)..Len(text) : \A o \in ParentTags(text) : ~(k < o /\ o <= m)}

\* C16: the manifest has exactly one parent element for every registered
\* parent name and none for another name, whether the parent has children or
\* not and however often the name was registered; the block of a parent has
\* exactly one child element for every child registered in it and none for
\* another name, and no child element lies outside a block.
C16_ManifestListsRegistry ==
    Returned("GetToolkitDescription") =>
        /\ \A name \in DOMAIN tk.parents :
              Cardinality({k \in ParentTags(resp) : resp[k + 1] = name}) = 1
        /\ \A k \in ParentTags(resp) : resp[k + 1] \in DOMAIN tk.parents
        /\ \A k \in ParentTags(resp) :
              LET children == tk.parents[resp[k + 1]].children
                  inBlock == ChildTags(resp) \cap BlockOf(resp, k)
              IN /\ \A child \in DOMAIN children :
                        Cardinality({m \in inBlock : resp[m + 1] = child}) = 1
                 /\ \A m \in inBlock : resp[m + 1] \in DOMAIN children
        /\ \A m \in ChildTags(resp) :
              \E k \in ParentTags(resp) : m \in BlockOf(resp, k)

\* the manifest of a toolkit has been returned that was built from two parents
\* of the same name, the later with two children, and a parent without children
C16_Witness ==
    /\ Returned("GetToolkitDescription")
    /\ registered = <<staleParent1, parent1, emptyP>>
    /\ Cardinality(ParentTags(resp)) = 2
    /\ Cardinality(ChildTags(resp)) = 2
    /\ \E k \in ParentTags(resp) :
          resp[k + 1] = "emptyP" /\ ChildTags(resp) \cap BlockOf(resp, k) = {}

----------------------------------------------------------------------------
(* C17: the schema of the request *)

\* C17: GetToolkitSchema returns a document for every provider name: the
\* result is never nil, and for a provider name other than "anthropic" it is
\* equal to the document returned for "anthropic".
C17_SchemaNeverFails ==
    Returned("GetToolkitSchema") =>
        /\ resp # Nil
        /\ resp.type = "object"
        /\ input.provider # "anthropic" => resp = GetToolkitSchema(tk, "anthropic")

\* the schema has been returned for a provider that is not known, by a
\* toolkit without parents, and it is the schema of the ToolKit request
C17_Witness ==
    /\ Returned("GetToolkitSchema")
    /\ input.provider = "unknown_provider"
    /\ DOMAIN tk.parents = {}
    /\ resp.required = <<"name", "parents">>

----------------------------------------------------------------------------
(* The call followed step by step *)

\* a call followed step by step whose context is not cancelled returns what
\* HandleToolKit as a whole returns
StepsAgree ==
    (Returned("HandleToolKit") /\ ~frame.cancelled) =>
        /\ resp = HandleToolKit(tk, input).resp
        /\ err = HandleToolKit(tk, input).err

\* the positions of the log at which a HandleChildren call or a handler starts
Starts == {n \in 1..Len(calls) : calls[n].op \in {"HandleChildren", "handler"}}
HandlerStarts == {n \in 1..Len(calls) : calls[n].op = "handler"}
HandlerReturnsOf(i, j) ==
    {n \in 1..Len(calls) : calls[n].op = "handlerReturn" /\ calls[n].i = i /\ calls[n].j = j}

----------------------------------------------------------------------------
(* C19: one cancellation token for the whole call *)

\* C19: the context HandleToolKit was called with is the context handed to
\* every HandleChildren call and to every handler invoked during that call.
C19_SameContext ==
    (op = "HandleToolKit") =>
        /\ frame.ctx \in Contexts
        /\ \A n \in Starts : calls[n].ctx = frame.ctx

\* a call made with a context that carries a timeout has dispatched two
\* parents and started a handler under the second, each with that context
C19_Witness ==
    /\ op = "HandleToolKit" /\ phase = "handler"
    /\ frame.ctx = "context.WithTimeout()"
    /\ Cardinality({n \in Starts : calls[n].op = "HandleChildren"}) = 2
    /\ \E n \in HandlerStarts : calls[n].i = 2 /\ calls[n].ctx = "context.WithTimeout()"

----------------------------------------------------------------------------
(* C20: dispatch is sequential *)

\* slot (i, j) comes before slot (k, l) in the request
SlotBefore(i, j, k, l) == i < k \/ (i = k /\ j < l)

----------------------------------------------------------------------------
(* C21: the registries are read-only after construction *)

\* the methods of a constructed toolkit that serve requests
ServingMethods ==
    {"HandleToolKit", "GetToolkitDescription", "GetToolkitSchema", "GetToolkitName"}

\* C21: a call of HandleToolKit, GetToolkitDescription, GetToolkitSchema or
\* GetToolkitName leaves the name of the toolkit and its map from parent names
\* to parents as they were before the call, whatever the input: payloads that
\* do not decode and requests naming unregistered parents included.
C21_RegistryReadOnly ==
    [][(phase' = "returned" /\ op' \in ServingMethods) =>
            /\ tk'.name = tk.name
            /\ tk'.parents = tk.parents]_vars

\* a HandleToolKit call whose request carries another name than the toolkit
\* and names an unregistered parent has returned, and the toolkit is still the
\* one New built
C21_Witness ==
    /\ Returned("HandleToolKit") /\ Decodes
    /\ input.name # ToolkitName
    /\ \E i \in 1..Len(Requested) : ~Registered(Requested[i].Name)
    /\ tk = New(ToolkitName, registered)

----------------------------------------------------------------------------
(* C23: the response is named after the toolkit *)

\* the payload of the returned call, its name replaced by the name of the
\* toolkit
InputNamedAfterToolkit == [input EXCEPT !.name = GetToolkitName(tk)]

\* C23: whenever the payload decodes, the response HandleToolKit returns is
\* named after the toolkit, not after the request, and the call returns the
\* response and the error, and runs the handlers, of the same request carrying
\* the name of the toolkit: the name of the request is never looked at.
C23_NamedAfterToolkit ==
    (Returned("HandleToolKit") /\ Decodes) =>
        /\ resp.Name = GetToolkitName(tk)
        /\ [resp |-> resp, err |-> err, calls |-> calls]
               = HandleToolKit(tk, InputNamedAfterToolkit)

\* a request named otherwise than the toolkit has been processed: a handler
\* ran, and the response carries the name of the toolkit
C23_Witness ==
    /\ Returned("HandleToolKit") /\ Decodes
    /\ input.name = "toolkit" /\ GetToolkitName(tk) = "test_handle_success"
    /\ CallsOf("handler") # {}
    /\ err = Nil
    /\ resp.Name = "test_handle_success"

----------------------------------------------------------------------------
(* C24: every result sits at the slot that asked for it *)

\* the slots (i, j) of the request whose parent and child are registered and
\* whose arguments decode
DecodingSlots ==
    {ij \in RegisteredSlots :
        SlotRegistered(ij) /\ ~FailsToDecode(SlotRequest(ij).Args)}

\* what the handler of the child named at slot ij returns for the arguments
\* given at slot ij
OwnHandlerOutcome(ij) ==
    handler(SlotChild(ij), UnmarshalArgs(SlotRequest(ij).Args).value)

\* C24: when the parent and the child named at request position (i, j) are
\* registered and the arguments decode, the child entry at response position
\* (i, j) holds, unmodified, the value returned by that child's own handler
\* applied to the arguments given at position (i, j).
C24_HoldsHandlerValue ==
    Returned("HandleToolKit") =>
        \A ij \in DecodingSlots :
            /\ HasEntry(ij[1], ij[2])
            /\ Entry(ij[1], ij[2]).Response = OwnHandlerOutcome(ij).result

\* C24, amended: when the parent and the child named at request position (i, j)
\* are registered, the arguments decode and the child's own handler, applied to
\* the arguments given at position (i, j), returns no error, the child entry at
\* response position (i, j) holds the value that handler returned, unmodified;
\* when that handler returns an error the entry holds the
\* handler_execution_error made from it instead.
C24_HoldsResultOfSuccess ==
    Returned("HandleToolKit") =>
        \A ij \in DecodingSlots :
            /\ HasEntry(ij[1], ij[2])
            /\ IF OwnHandlerOutcome(ij).err = Nil
               THEN Entry(ij[1], ij[2]).Response = OwnHandlerOutcome(ij).result
               ELSE WrapsHandlerError(Entry(ij[1], ij[2]).Response, SlotChild(ij),
                                      UnmarshalArgs(SlotRequest(ij).Args).value)

\* two parents that each hold a child named child1 were asked for it with
\* different arguments, and each entry holds the output of its own handler on
\* its own arguments
C24_Witness ==
    /\ Returned("HandleToolKit") /\ Decodes
    /\ Names(Requested) = <<"parent1", "parent2">>
    /\ Requested[1].ToolKitChilds = <<[Name |-> "child1", Args |-> ArgsGood]>>
    /\ Requested[2].ToolKitChilds = <<[Name |-> "child1", Args |-> ArgsEmpty]>>
    /\ Entry(1, 1).Response.Output = <<"out1", ":", "in1">>
    /\ Entry(2, 1).Response.Output = <<"out2", ":", "">>

----------------------------------------------------------------------------
(* C25: the entries carry the names of the request *)

\* C25: every parent entry of the response carries the name of the parent
\* requested at the same index, registered or not, and every child entry under
\* a registered parent carries the name of the child requested at the same
\* index, whether that child succeeded, failed or was not found.
C25_NameMirroring ==
    (Returned("HandleToolKit") /\ Decodes /\ Len(Requested) >= 1) =>
        /\ Names(resp.Responses) = Names(Requested)
        /\ \A i \in 1..Len(Requested) :
              Registered(Requested[i].Name) =>
                  Names(resp.Responses[i].ChildsResponses) = Names(Requested[i].ToolKitChilds)

\* an unregistered parent and a registered one were requested, the latter with
\* a child that fails and a child that is not found: each entry carries the
\* requested name
C25_Witness ==
    /\ Returned("HandleToolKit") /\ Decodes
    /\ Names(Requested) = <<"non_existent_parent", "parent1">>
    /\ Names(Requested[2].ToolKitChilds) = <<"childWithError", "non_existent_child">>
    /\ resp.Responses[1].Name = "non_existent_parent"
    /\ resp.Responses[2].Name = "parent1"
    /\ HasCode(Entry(2, 1).Response, "handler_execution_error")
    /\ Entry(2, 1).Name = "childWithError"
    /\ HasCode(Entry(2, 2).Response, "child_not_found")
    /\ Entry(2, 2).Name = "non_existent_child"

----------------------------------------------------------------------------
(* C27: the names of the synthetic error slots *)

\* C27: the synthetic error slots carry fixed names, not names of the caller:
\* when the payload does not decode the response is named
\* toolkit_request_parse_error and holds one parent entry named _parse_error
\* with one child entry named _input_error; the entry of an unregistered parent
\* holds a single child entry named _parent_error, whichever childs the
\* request lists under that parent.
C27_SyntheticNames ==
    /\ (Returned("HandleToolKit") /\ ~Decodes) =>
          /\ resp.Name = "toolkit_request_parse_error"
          /\ Names(resp.Responses) = <<"_parse_error">>
          /\ Names(resp.Responses[1].ChildsResponses) = <<"_input_error">>
    /\ (Returned("HandleToolKit") /\ Decodes) =>
          \A i \in 1..Len(Requested) :
              ~Registered(Requested[i].Name) =>
                  /\ Len(resp.Responses) >= i
                  /\ Names(resp.Responses[i].ChildsResponses) = <<"_parent_error">>

\* an unregistered parent was asked for two registered childs of another
\* parent, and its entry holds the one slot named _parent_error
C27_Witness ==
    /\ Returned("HandleToolKit") /\ Decodes
    /\ Names(Requested) = <<"non_existent_parent">>
    /\ Names(Requested[1].ToolKitChilds) = <<"child1", "childWithError">>
    /\ Names(resp.Responses[1].ChildsResponses) = <<"_parent_error">>

----------------------------------------------------------------------------
(* C28: how often a handler runs *)

\* C28: during one HandleToolKit call a handler is invoked exactly once for
\* each request slot whose parent is registered, whose child is registered in
\* that parent and whose arguments decode, a repeated slot once per repetition,
\* and it is the handler of the child that slot names; no handler is invoked
\* for any other slot, so the childs listed under an unregistered parent are
\* never invoked, even when another parent holds a child of that name.
C28_HandlerRunsOncePerSlot ==
    Returned("HandleToolKit") =>
        /\ \A ij \in DecodingSlots :
              /\ Cardinality(HandlerCalls(ij[1], ij[2])) = 1
              /\ \A n \in HandlerCalls(ij[1], ij[2]) :
                    /\ calls[n].parent = Requested[ij[1]].Name
                    /\ calls[n].child = SlotRequest(ij).Name
        /\ \A n \in CallsOf("handler") : <<calls[n].i, calls[n].j>> \in DecodingSlots
        /\ Cardinality(CallsOf("handler")) = Cardinality(DecodingSlots)

\* child1 was listed under an unregistered parent and under parent2: the only
\* handler invoked is the one of parent2's child1, once
C28_Witness ==
    /\ Returned("HandleToolKit") /\ Decodes
    /\ Names(Requested) = <<"non_existent_parent", "parent2">>
    /\ Requested[1].ToolKitChilds = <<[Name |-> "child1", Args |-> ArgsGood]>>
    /\ Requested[2].ToolKitChilds = <<[Name |-> "child1", Args |-> ArgsGood]>>
    /\ Cardinality(CallsOf("handler")) = 1
    /\ \A n \in CallsOf("handler") : calls[n].i = 2 /\ calls[n].parent = "parent2"

----------------------------------------------------------------------------
(* C29: the nesting of the manifest *)

\* the positions of a text where a parent element closes: the pieces written
\* that hold the tag </parent>
ParentCloses(text) ==
    {k \in 1..Len(text) : text[k] \in {"\"></parent>\n", "</parent>\n"}}

\* C29: the manifest is well nested: the block of every registered parent,
\* with children or without, holds exactly one closing parent tag for its one
\* opening tag, and every child element of the block lies before that closing
\* tag.
C29_WellNested ==
    Returned("GetToolkitDescription") =>
        \A k \in ParentTags(resp) :
            LET closes == ParentCloses(resp) \cap BlockOf(resp, k) IN
            /\ Cardinality(closes) = 1
            /\ \A m \in ChildTags(resp) \cap BlockOf(resp, k) :
                  \A c \in closes : m < c

----------------------------------------------------------------------------
(* C26: cancellation keeps what is recorded *)

\* the position of the log at which the context was cancelled, 0 if it was not
CancelledAt ==
    IF \E n \in 1..Len(calls) : calls[n].op = "cancel"
    THEN CHOOSE n \in 1..Len(calls) : calls[n].op = "cancel"
    ELSE 0

\* the handler returns logged before the context was cancelled
ReturnsBeforeCancel ==
    {n \in 1..Len(calls) : calls[n].op = "handlerReturn" /\ n < CancelledAt}

\* the handler starts that the cancellation found running: started before it
\* and not returned before it
RunningAtCancel ==
    {n \in HandlerStarts :
        /\ n < CancelledAt
        /\ \A r \in HandlerReturnsOf(calls[n].i, calls[n].j) : CancelledAt < r}

\* C26: when the context of a call was cancelled while a handler was running,
\* the call still returns, with a nil error, a response that has an entry for
\* every requested parent, and in it the entry of every handler that returned
\* before the cancellation is the one recorded when that handler returned.
C26_CancellationKeepsResults ==
    (Returned("HandleToolKit") /\ RunningAtCancel # {}) =>
        /\ err = Nil
        /\ Len(resp.Responses) = Len(Requested)
        /\ \A n \in ReturnsBeforeCancel :
              /\ HasEntry(calls[n].i, calls[n].j)
              /\ Entry(calls[n].i, calls[n].j) = calls[n].entry

\* a call has returned whose context was cancelled while the second handler
\* was running: that handler gave up, and the entry of the first handler, which
\* had returned before, holds its result
C26_Witness ==
    /\ Returned("HandleToolKit")
    /\ RunningAtCancel # {}
    /\ \E n \in ReturnsBeforeCancel :
          /\ calls[n].i = 1 /\ calls[n].j = 1
          /\ ~IsToolKitError(calls[n].entry.Response)
          /\ Entry(1, 1) = calls[n].entry
    /\ \E i \in 1..Len(resp.Responses) :
       \E j \in 1..Len(resp.Responses[i].ChildsResponses) :
          /\ Entry(i, j) = AbortedEntry(Requested[i].ToolKitChilds[j])
          /\ \E n \in RunningAtCancel : calls[n].i = i /\ calls[n].j = j

----------------------------------------------------------------------------
(* C22: calls that run at the same time do not interfere *)

\* what call c returns when it is the only call on the toolkit
Alone(c) == HandleToolKit(tk, goroutines.call[c].input)

\* s is an initial part of t
IsPrefix(s, t) == Len(s) <= Len(t) /\ \A k \in 1..Len(s) : s[k] = t[k]

\* C22: under every interleaving of HandleToolKit calls on one toolkit, taken
\* without any lock, each call returns exactly the response and the error it
\* returns when run alone, and at every moment the response a call has built
\* so far holds, in order, entries of its own request only: no entry of
\* another call ever appears in it.
C22_NoInterference ==
    \A c \in CallIds :
        /\ goroutines.call[c].pc = "returned" =>
              /\ goroutines.call[c].resp = Alone(c).resp
              /\ goroutines.call[c].err = Alone(c).err
        /\ goroutines.call[c].pc = "parents" =>
              /\ goroutines.tlResponse[c].Name = Alone(c).resp.Name
              /\ Len(goroutines.tlResponse[c].Responses) = goroutines.call[c].i - 1
              /\ IsPrefix(goroutines.tlResponse[c].Responses, Alone(c).resp.Responses)

\* two calls with different requests are both between their first and their
\* second parent, and each has built the first entry of its own response
C22_Witness ==
    /\ goroutines.call[1].pc = "parents" /\ goroutines.call[1].i = 2
    /\ goroutines.call[2].pc = "parents" /\ goroutines.call[2].i = 2
    /\ Names(CallRequest(1).ToolKitParents) = <<"parent1", "parent2">>
    /\ Names(CallRequest(2).ToolKitParents) = <<"non_existent_parent", "parent1">>
    /\ Names(goroutines.tlResponse[1].Responses) = <<"parent1">>
    /\ Names(goroutines.tlResponse[2].Responses) = <<"non_existent_parent">>

----------------------------------------------------------------------------
(* C30: the conversation loop of the example client *)

\* the positions of the replies of the model in the history, and their number
Assistants == {k \in 1..Len(conv.history) : conv.history[k].role = "assistant"}
Turns == Cardinality(Assistants)

\* the position of the reply of turn t, and the reply
AssistantAt(t) == CHOOSE k \in Assistants : Cardinality({m \in Assistants : m <= k}) = t
ReplyOf(t) == conv.history[AssistantAt(t)].content

\* the tool-use blocks of a reply
ToolUses(reply) == {b \in 1..Len(reply) : reply[b].type = "tool_use"}

\* the messages appended to the history during turn t, after its reply
ResultsOf(t) ==
    SubSeq(conv.history, AssistantAt(t) + 1,
           IF t < Turns THEN AssistantAt(t + 1) - 1 ELSE Len(conv.history))

\* the tool-use blocks of turn t that the loop over the blocks has passed
Handled(t) ==
    {b \in ToolUses(ReplyOf(t)) : t < Turns \/ conv.pc # "blocks" \/ b < conv.b}

\* the HandleToolKit calls made for block b of turn t
ToolkitCallsFor(t, b) ==
    {n \in 1..Len(conv.toolkitCalls) :
        conv.toolkitCalls[n].turn = t /\ conv.toolkitCalls[n].block = b}

\* the text of the last text block of a reply, empty if it has none
TextOf(reply) ==
    LET texts == {b \in 1..Len(reply) : reply[b].type = "text"} IN
    IF texts = {} THEN ""
    ELSE reply[CHOOSE b \in texts : \A o \in texts : o <= b].text

\* the thinking of the last thinking block of a reply, empty if it has none
ThinkingOf(reply) ==
    LET thoughts == {b \in 1..Len(reply) : reply[b].type = "thinking"} IN
    IF thoughts = {} THEN ""
    ELSE reply[CHOOSE b \in thoughts : \A o \in thoughts : o <= b].thinking

\* every tool-use block passed so far was handed to HandleToolKit exactly once
\* and left exactly one tool-result message in the history, in order, flagged
\* as an error exactly when HandleToolKit returned an error or the response
\* did not serialize
OneResultPerToolUse ==
    \A t \in 1..Turns :
        /\ Len(ResultsOf(t)) = Cardinality(Handled(t))
        /\ \A b \in Handled(t) :
              LET block == ReplyOf(t)[b]
                  message == ResultsOf(t)[Cardinality({o \in Handled(t) : o <= b})] IN
              /\ Cardinality(ToolkitCallsFor(t, b)) = 1
              /\ message.role = "user"
              /\ Len(message.content) = 1
              /\ message.content[1].type = "tool_result"
              /\ message.content[1].tool_use_id = block.id
              /\ \A n \in ToolkitCallsFor(t, b) :
                    /\ conv.toolkitCalls[n].input = block.input
                    /\ conv.toolkitCalls[n].toolErr = HandleToolKit(tk, block.input).err
                    /\ message.content[1].is_error <=>
                          (conv.toolkitCalls[n].toolErr # Nil \/ conv.toolkitCalls[n].marshalErr # Nil)

\* the loop stopped at the first reply without a tool-use block and returned
\* its text
StoppedAtReplyWithoutToolUse ==
    /\ conv.err = Nil
    /\ Turns = conv.apiCalls /\ Turns >= 1
    /\ ToolUses(ReplyOf(Turns)) = {}
    /\ \A t \in 1..(Turns - 1) : ToolUses(ReplyOf(t)) # {}
    /\ conv.result = FinalResult(ThinkingOf(ReplyOf(Turns)), TextOf(ReplyOf(Turns)))

\* the loop stopped after its fifth turn, every reply having used a tool
StoppedAfterFifthTurn ==
    /\ conv.err = Nil
    /\ Turns = conv.apiCalls /\ Turns = MaxTurns
    /\ \A t \in 1..Turns : ToolUses(ReplyOf(t)) # {}

\* the loop stopped at an API call that failed and returned its error
StoppedAtFailedCall ==
    /\ conv.err # Nil
    /\ conv.result = <<>>
    /\ Turns = conv.apiCalls - 1
    /\ \A t \in 1..Turns : ToolUses(ReplyOf(t)) # {}

\* C30: GenerateContent makes at most 5 model API calls; it stops at the first
\* turn whose reply holds no tool-use block, returning that turn's text, and
\* otherwise after the fifth turn; every tool-use block is passed to
\* HandleToolKit exactly once and leaves exactly one tool-result message in
\* the history, flagged as an error exactly when HandleToolKit returned an
\* error or the response did not serialize.
C30_StopsWithoutToolUseOrAfterFive ==
    /\ conv.apiCalls <= 5
    /\ OneResultPerToolUse
    /\ conv.pc = "done" => (StoppedAtReplyWithoutToolUse \/ StoppedAfterFifthTurn)

\* C30, amended: GenerateContent always terminates, after at most 5 model API
\* calls; it stops at the first API call that fails, returning that error, or
\* at the first turn whose reply holds no tool-use block, returning that
\* turn's text, and otherwise after the fifth turn; every tool-use block is
\* passed to HandleToolKit exactly once and leaves exactly one tool-result
\* message in the history, flagged as an error exactly when HandleToolKit
\* returned an error or the response did not serialize.
C30_LoopTerminates ==
    /\ [](/\ conv.apiCalls <= 5
          /\ OneResultPerToolUse
          /\ conv.pc = "done" =>
                \/ StoppedAtReplyWithoutToolUse
                \/ StoppedAfterFifthTurn
                \/ StoppedAtFailedCall)
    /\ <>(conv.pc = "done")

\* GenerateContent has returned after five turns that all used a tool; one
\* tool result is flagged because HandleToolKit returned an error, one because
\* the response did not serialize, and one is not flagged
C30_Witness ==
    /\ conv.pc = "done" /\ conv.apiCalls = 5 /\ StoppedAfterFifthTurn
    /\ \E n \in 1..Len(conv.toolkitCalls) :
          conv.toolkitCalls[n].toolErr # Nil /\ conv.toolkitCalls[n].marshalErr = Nil
    /\ \E n \in 1..Len(conv.toolkitCalls) :
          conv.toolkitCalls[n].toolErr = Nil /\ conv.toolkitCalls[n].marshalErr # Nil
    /\ \E k \in 1..Len(conv.history) :
          /\ conv.history[k].role = "user"
          /\ conv.history[k].content[1].type = "tool_result"
          /\ ~conv.history[k].content[1].is_error

====
